---------------------------- MODULE Spec2Model ----------------------------
(***************************************************************************)
(* The signaling hub of rust-webrtc-p2p-example (src/server): the channel  *)
(* registry, the per-connection workers (Socket::run), the channels with   *)
(* their offer / ICE accumulators and receiver slot, and the frames each   *)
(* connection is sent.                                                     *)
(*                                                                         *)
(* Every worker is a sequential task; its steps are the pieces of a        *)
(* handler between two points where the task can be suspended with an      *)
(* effect visible to other tasks pending (a lock that is held across       *)
(* several writes, a frame written to a socket).  A tokio RwLock or Mutex  *)
(* that is taken and released inside one step is not represented; the      *)
(* locks join_channel and update_open_channel_ids hold across several      *)
(* frame writes are variables.                                             *)
(*                                                                         *)
(* Arc / Weak: an object is alive while a strong reference to it exists.   *)
(* Objects live in the sequences channel_objs and receiver_objs and are    *)
(* referred to by their index; a Weak is an index whose upgrade() is the   *)
(* test ChannelAlive / ReceiverAlive / SocketAlive.                        *)
(***************************************************************************)
EXTENDS Integers, Sequences, FiniteSets, TLC

\* ------------------------------------------------------------------ bounds

\* Number of sockets the listener accepts (worker tasks spawned).
NumConns == 2

\* Number of inbound socket reads (frames, end of stream) over all workers.
MaxMsgs == 3

\* Session ids an endpoint may choose: 1..MaxSessionId.
MaxSessionId == 1

\* Longest ICE candidate list of a seeded initial state.
MaxSeedIce == 2

Conns == 1..NumConns

SessionIds == 1..MaxSessionId

\* Call sites that send through one connection at the same time (its own
\* worker's replies, a peer worker's forwards, a broadcast), the frames each
\* sends, and the writes one frame takes to pass through the sink.
NumSites == 3

FramesPerSite == 2

PartsPerFrame == 2

Sites == 1..NumSites

\* A u32 is kept as two 16-bit limbs, [hi, lo] standing for hi * 2^16 + lo.
Limb == 65536

U32(hi, lo) == [hi |-> hi, lo |-> lo]

\* AtomicU32::fetch_add(1, _): the value after it, wrapping around on overflow.
WrappingInc(n) ==
    IF n.lo + 1 < Limb
    THEN [n EXCEPT !.lo = @ + 1]
    ELSE [hi |-> (n.hi + 1) % Limb, lo |-> 0]

\* Connections whose sink may start to fail.
MaxFailing == 1

ChannelIds == {"a"}

Sdps == {"o1"}

Candidates == {"c1", "c2"}

Payloads == {"d1"}

NetworkModes == {"PeerToPeer", "ClientServer"}

\* Option::None of a session description.
None == "None"

\* No object: Option::None of a receiver slot, no lock holder.
NoRef == 0

EmptyMap == [x \in {} |-> 0]

MapPut(f, k, v) == [x \in (DOMAIN f) \cup {k} |-> IF x = k THEN v ELSE f[x]]

MapDel(f, k) == [x \in (DOMAIN f) \ {k} |-> f[x]]

Range(f) == {f[x] : x \in DOMAIN f}

\* ------------------------------------------------------------------- state

VARIABLES
    next_socket_id,     \* Server.next_socket_id
    socket_id,          \* Socket.socket_id of each worker
    channels,           \* ServerData.channels : ChannelId -> Weak<Channel>
    senders,            \* ServerData.senders  : SocketId -> Weak<SocketSender>
    channel_objs,       \* the Channel objects ever allocated
    receiver_objs,      \* the ChannelReceiver objects ever allocated
    channel_senders,    \* Socket.channel_senders of each worker
    channel_receivers,  \* Socket.channel_receivers of each worker
    channels_wr,        \* worker holding ServerData.channels for writing
    senders_rd,         \* workers holding ServerData.senders for reading
    session_description_rd, \* channels whose sender.session_description is read-held
    ice_candidates_rd,  \* channels whose sender.ice_candidates is read-held
    receiver_wr,        \* channels whose kind.receiver slot is write-held
    pc,                 \* where each worker is
    local,              \* the locals of the handler each worker is in
    outbox,             \* frames written to each connection's socket, in order
    nmsgs,              \* inbound reads so far
    sink_lock,          \* SocketSender.0: the call holding the Mutex of one connection
    sink,               \* what has been written into that connection's SplitSink
    call,               \* the concurrent calls of SocketSender::send on it
    log,                \* what the workers have logged with error!
    failing             \* connections whose sink answers a write with Err

vars == <<next_socket_id, socket_id, channels, senders, channel_objs,
          receiver_objs, channel_senders, channel_receivers, channels_wr,
          senders_rd, session_description_rd, ice_candidates_rd, receiver_wr,
          pc, local, outbox, nmsgs, sink_lock, sink, call, log, failing>>

sink_vars == <<sink_lock, sink, call>>

hub_vars == <<next_socket_id, socket_id, channels, senders, channel_objs,
              receiver_objs, channel_senders, channel_receivers, channels_wr,
              senders_rd, session_description_rd, ice_candidates_rd, receiver_wr,
              pc, local, outbox, nmsgs, log, failing>>

hub_vars_but_failing == <<next_socket_id, socket_id, channels, senders, channel_objs,
                          receiver_objs, channel_senders, channel_receivers, channels_wr,
                          senders_rd, session_description_rd, ice_candidates_rd,
                          receiver_wr, pc, local, outbox, nmsgs, log>>

hub == <<channels, channel_objs, receiver_objs, channel_senders, channel_receivers>>

table == <<next_socket_id, socket_id, senders>>

field_locks == <<session_description_rd, ice_candidates_rd, receiver_wr>>

locks == <<channels_wr, senders_rd, session_description_rd, ice_candidates_rd, receiver_wr>>

\* --------------------------------------------------------------- workers

\* Locals of a worker outside any handler.
NoLocal == [cause |-> "", snap |-> {}, todo |-> {}, ch |-> NoRef, r |-> NoRef,
            n |-> 0, arg |-> "", end |-> ""]

\* The worker owns its Socket (and with it the Arc<SocketSender>) from
\* Socket::new until clear() returns or the task unwinds.
SocketAlive(c) == pc[c] \notin {"idle", "done", "panicked"} /\ local[c].cause # "end"

\* Mutant of ChannelAlive: a registry Weak always upgrades.
ChannelAlive_Always(ch) == TRUE

\* Strong references to a Channel: the owner's channel_senders entry and the
\* `channel` local of a join_channel in progress.
ChannelAlive(ch) ==
    \/ \E c \in Conns : ch \in Range(channel_senders[c])
    \/ \E c \in Conns : local[c].cause = "join" /\ local[c].ch = ch

\* Strong references to a ChannelReceiver: the channel_receivers entry and
\* the `channel_receiver` local of join_channel until it is moved into the map.
ReceiverAlive(r) ==
    \/ \E c \in Conns : r \in Range(channel_receivers[c])
    \/ \E c \in Conns : pc[c] = "join_replay" /\ local[c].r = r

\* ---------------------------------------------------------------- frames

Frame(tag, id, msg, err, data, ids, by, via, r) ==
    [tag |-> tag, id |-> id, msg |-> msg, err |-> err, data |-> data,
     ids |-> ids, by |-> by, via |-> via, r |-> r]

\* Mutant of OpenChannelIdsChanged: what follows a successful OpenChannel is
\* an OpenChannelSuccess.
OpenChannelIdsChanged_Success(ids, by, cause) ==
    IF cause = "open"
    THEN Frame("SenderMessage", 0, "OpenChannelSuccess", "", "", ids, by, cause, NoRef)
    ELSE Frame("OpenChannelIdsChanged", 0, "", "", "", ids, by, cause, NoRef)

OpenChannelIdsChanged(ids, by, cause) ==
    Frame("OpenChannelIdsChanged", 0, "", "", "", ids, by, cause, NoRef)

SenderMessage(id, msg, data, by, via) ==
    Frame("SenderMessage", id, msg, "", data, {}, by, via, NoRef)

SenderError(id, err, data, by) ==
    Frame("SenderMessage", id, "Error", err, data, {}, by, "reply", NoRef)

ReceiverMessage(id, msg, data, by, via, r) ==
    Frame("ReceiverMessage", id, msg, "", data, {}, by, via, r)

ReceiverError(id, err, data, by) ==
    Frame("ReceiverMessage", id, "Error", err, data, {}, by, "reply", NoRef)

\* Mutant of Send: a write to a failing sink still delivers the frame.
Send_Delivering(to, frame) ==
    /\ outbox' = [outbox EXCEPT ![to] = Append(@, frame)]
    /\ UNCHANGED log

\* An error! line of worker c.
Logged(c, what) == [by |-> c, what |-> what]

\* SocketSender::send: one frame written under the connection's Mutex; an Err
\* of the sink is logged and the frame is lost.
Send(to, frame) ==
    IF to \in failing
    THEN /\ log' = log \cup {Logged(frame.by, "send message error")}
         /\ UNCHANGED outbox
    ELSE /\ outbox' = [outbox EXCEPT ![to] = Append(@, frame)]
         /\ UNCHANGED log

\* ----------------------------------------------------- SocketSender::send

\* Mutant of SinkFree: send writes without taking the Mutex.
SinkFree_Always == TRUE

\* self.0.lock().await is granted: no other call holds the Mutex.
SinkFree == sink_lock = NoRef

\* SocketSender::send up to the MutexGuard: the message is serialized and the
\* call waits for the Mutex of the connection's sink.
send_lock(s) ==
    /\ call[s].pc = "ready"
    /\ call[s].seq < FramesPerSite
    /\ SinkFree
    /\ sink_lock' = s
    /\ call' = [call EXCEPT ![s].pc = "locked", ![s].part = 0]
    /\ UNCHANGED <<sink, hub_vars>>

\* SinkExt::send under the guard: the frame passes into the sink in parts
\* (feed, flush); the temporary guard is dropped at the end of the statement,
\* after the last part, and send returns to its caller.
send_part(s) ==
    /\ call[s].pc = "locked"
    /\ sink' = Append(sink, [by |-> s, seq |-> call[s].seq + 1, part |-> call[s].part + 1])
    /\ IF call[s].part + 1 >= PartsPerFrame
       THEN /\ sink_lock' = NoRef
            /\ call' = [call EXCEPT ![s].pc = "ready", ![s].seq = @ + 1, ![s].part = 0]
       ELSE /\ call' = [call EXCEPT ![s].part = @ + 1]
            /\ UNCHANGED sink_lock
    /\ UNCHANGED hub_vars

\* ------------------------------------------------------------------- init

\* One SocketSender nobody is sending through.
SinkIdle ==
    /\ sink_lock = NoRef
    /\ sink = <<>>
    /\ call = [s \in Sites |-> [pc |-> "ready", seq |-> 0, part |-> 0]]
    /\ log = {}
    /\ failing = {}

Init ==
    /\ SinkIdle
    /\ next_socket_id = U32(0, 0)
    /\ socket_id = [c \in Conns |-> U32(0, 0)]
    /\ channels = EmptyMap
    /\ senders = EmptyMap
    /\ channel_objs = <<>>
    /\ receiver_objs = <<>>
    /\ channel_senders = [c \in Conns |-> EmptyMap]
    /\ channel_receivers = [c \in Conns |-> EmptyMap]
    /\ channels_wr = NoRef
    /\ senders_rd = {}
    /\ session_description_rd = {}
    /\ ice_candidates_rd = {}
    /\ receiver_wr = {}
    /\ pc = [c \in Conns |-> "idle"]
    /\ local = [c \in Conns |-> NoLocal]
    /\ outbox = [c \in Conns |-> <<>>]
    /\ nmsgs = 0

\* ----------------------------------------------------- accepting a socket

\* Server::run (fetch_add, spawn) and Socket::new: the worker registers its
\* SocketSender under the senders write lock, then broadcasts.
\* Worker slots are taken in order (they are interchangeable).
Accept(c) ==
    /\ pc[c] = "idle"
    /\ \A d \in Conns : d < c => pc[d] # "idle"
    /\ senders_rd = {}
    /\ next_socket_id' = WrappingInc(next_socket_id)
    /\ socket_id' = [socket_id EXCEPT ![c] = next_socket_id]
    /\ IF next_socket_id \in DOMAIN senders
       THEN \* assert!(prev_sender.is_none()) fails: the task unwinds
            /\ senders' = MapPut(senders, next_socket_id, c)
            /\ pc' = [pc EXCEPT ![c] = "panicked"]
            /\ local' = [local EXCEPT ![c] = [NoLocal EXCEPT !.end = "Assert"]]
       ELSE /\ senders' = MapPut(senders, next_socket_id, c)
            /\ pc' = [pc EXCEPT ![c] = "update_snapshot"]
            /\ local' = [local EXCEPT ![c] = [NoLocal EXCEPT !.cause = "accept"]]
    /\ UNCHANGED <<hub, locks, outbox, log, nmsgs>>
    /\ UNCHANGED <<sink_vars, failing>>

\* ------------------------------------------- ServerData::update_open_channel_ids

\* Mutant of Advertised: the receiver slot is not looked at.
Advertised_Alive(ch) == ChannelAlive(ch)

\* A channel is listed when its Weak upgrades and its receiver slot is None.
Advertised(ch) == ChannelAlive(ch) /\ channel_objs[ch].receiver = NoRef

\* Mutant of OpenChannelIds: every key of the registry is listed.
OpenChannelIds_All == DOMAIN channels

\* The list built under the channels read lock (its order is the HashMap's
\* iteration order; the model keeps the set).
OpenChannelIds == {k \in DOMAIN channels : Advertised(channels[k])}

\* Where update_open_channel_ids returns to.
AfterUpdate(c) == IF local[c].cause = "end" THEN "done" ELSE "run"

\* Locals kept when a handler returns to the run loop or the task ends.
Returned(c) == [NoLocal EXCEPT !.end = local[c].end]

\* channels.read(), the loop over the registry, drop(channels).
update_snapshot(c) ==
    /\ pc[c] = "update_snapshot"
    /\ channels_wr = NoRef
    /\ local' = [local EXCEPT ![c].snap = OpenChannelIds]
    /\ pc' = [pc EXCEPT ![c] = "update_send"]
    /\ UNCHANGED <<hub, table, locks, outbox, log, nmsgs>>
    /\ UNCHANGED <<sink_vars, failing>>

\* The senders still to be visited by the loop over senders.values(): those
\* present when senders.read() was granted (taken with the first iteration).
Targets(c) == IF c \in senders_rd THEN local[c].todo ELSE DOMAIN senders

\* update_open_channel_ids returns: the senders read guard is dropped.
UpdateDone(c) ==
    /\ pc' = [pc EXCEPT ![c] = AfterUpdate(c)]
    /\ local' = [local EXCEPT ![c] = Returned(c)]
    /\ senders_rd' = senders_rd \ {c}

\* One iteration of the loop over senders.values(): upgrade, send.
update_send(c) ==
    /\ pc[c] = "update_send"
    /\ IF Targets(c) = {}
       THEN UpdateDone(c) /\ UNCHANGED <<outbox, log>>
       ELSE \E id \in Targets(c) :
              /\ IF SocketAlive(senders[id])
                 THEN Send(senders[id],
                           OpenChannelIdsChanged(local[c].snap, c, local[c].cause))
                 ELSE UNCHANGED <<outbox, log>>
              /\ IF Targets(c) = {id}
                 THEN UpdateDone(c)
                 ELSE /\ local' = [local EXCEPT ![c].todo = Targets(c) \ {id}]
                      /\ senders_rd' = senders_rd \cup {c}
                      /\ UNCHANGED pc
    /\ UNCHANGED <<hub, table, channels_wr, field_locks, nmsgs>>
    /\ UNCHANGED <<sink_vars, failing>>

\* ------------------------------------------------------------ Socket::run

\* The worker is at socket_receiver.next() and may read one more frame.
CanRead(c) == pc[c] = "run" /\ nmsgs < MaxMsgs

\* Mutant of NewChannel: the new channel's slot is not empty.
NewChannel_Bound(c, sid, k) ==
    [channel_id |-> k, conn |-> c, session_sender_id |-> sid,
     session_description |-> None, candidates |-> <<>>, all_sent |-> FALSE,
     receiver |-> 1]

\* Channel { sender: ChannelSender { .. }, kind: PeerToPeer { receiver: None } }
NewChannel(c, sid, k) ==
    [channel_id |-> k, conn |-> c, session_sender_id |-> sid,
     session_description |-> None, candidates |-> <<>>, all_sent |-> FALSE,
     receiver |-> NoRef]

\* Mutant of ChannelIdOccupied: the registry entry is never found occupied.
ChannelIdOccupied_Never(k) == FALSE

\* The registry test of open_channel: channels.entry(channel_id) is Occupied
\* (the entry's Weak is not upgraded).
ChannelIdOccupied(k) == k \in DOMAIN channels

\* Mutant of SenderIdOccupied: sender ids are looked up in every session's map.
SenderIdOccupied_Global(c, sid) == \E d \in Conns : sid \in DOMAIN channel_senders[d]

\* Mutant of SenderIdOccupied: the sender map entry is never found occupied.
SenderIdOccupied_Never(c, sid) == FALSE

\* The first test of open_channel: channel_senders.entry(session_sender_id)
\* is Occupied.
SenderIdOccupied(c, sid) == sid \in DOMAIN channel_senders[c]

\* Mutant of NotImplemented: every network mode creates a channel.
NotImplemented_Never(mode) == FALSE

\* `match network_mode` of open_channel: the NetworkMode::ClientServer arm.
NotImplemented(mode) == mode = "ClientServer"

\* Socket::open_channel
open_channel(c, sid, k, mode) ==
    /\ CanRead(c)
    /\ nmsgs' = nmsgs + 1
    /\ IF SenderIdOccupied(c, sid)
       THEN /\ Send(c, SenderError(sid, "SessionSenderIdIsAlreadyUsed", "", c))
            /\ UNCHANGED <<hub, pc, local>>
       ELSE /\ channels_wr = NoRef
            /\ IF ChannelIdOccupied(k)
               THEN /\ Send(c, SenderError(sid, "ChannelIdIsAlreadyUsed", k, c))
                    /\ UNCHANGED <<hub, pc, local>>
               ELSE IF NotImplemented(mode)
               THEN /\ log' = log \cup {Logged(c, "not implemented")}
                    /\ UNCHANGED <<hub, pc, local, outbox>>
               ELSE /\ channel_objs' = Append(channel_objs, NewChannel(c, sid, k))
                    /\ channels' = MapPut(channels, k, Len(channel_objs) + 1)
                    /\ channel_senders' = [channel_senders EXCEPT
                                             ![c] = MapPut(@, sid, Len(channel_objs) + 1)]
                    /\ pc' = [pc EXCEPT ![c] = "update_snapshot"]
                    /\ local' = [local EXCEPT ![c].cause = "open"]
                    /\ UNCHANGED <<receiver_objs, channel_receivers, outbox, log>>
    /\ UNCHANGED <<table, locks>>
    /\ UNCHANGED <<sink_vars, failing>>

\* Socket::close_channel
close_channel(c, sid) ==
    /\ CanRead(c)
    /\ nmsgs' = nmsgs + 1
    /\ IF sid \in DOMAIN channel_senders[c]
       THEN /\ channel_senders' = [channel_senders EXCEPT ![c] = MapDel(@, sid)]
            /\ pc' = [pc EXCEPT ![c] = "update_snapshot"]
            /\ local' = [local EXCEPT ![c].cause = "close"]
            /\ UNCHANGED <<channels, channel_objs, receiver_objs, channel_receivers, outbox, log>>
       ELSE /\ Send(c, SenderError(sid, "SessionSenderIdIsNotExist", "", c))
            /\ UNCHANGED <<hub, pc, local>>
    /\ UNCHANGED <<table, locks>>
    /\ UNCHANGED <<sink_vars, failing>>

\* ------------------------------------------------- the owner's forwarding

\* Mutant of BoundReceiver: the slot is always found empty.
BoundReceiver_None(ch) == NoRef

\* receiver.as_ref().and_then(|receiver| receiver.upgrade()) of a channel's
\* receiver slot: the bound receiver if it is alive, else NoRef.
BoundReceiver(ch) ==
    IF channel_objs[ch].receiver # NoRef /\ ReceiverAlive(channel_objs[ch].receiver)
    THEN channel_objs[ch].receiver
    ELSE NoRef

\* Mutant of ReceiverSend: the frame carries the owner's sender id.
ReceiverSend_SenderId(r, msg, data, by, via) ==
    IF SocketAlive(receiver_objs[r].conn)
    THEN Send(receiver_objs[r].conn,
              ReceiverMessage(channel_objs[receiver_objs[r].channel].session_sender_id + 1,
                              msg, data, by, via, r))
    ELSE UNCHANGED <<outbox, log>>

\* ChannelReceiver::send_offer / send_ice_candidate / send_all_ice_candidate_sent
\* / send_binary_data: one frame through the receiver's own connection.
ReceiverSend(r, msg, data, by, via) ==
    IF SocketAlive(receiver_objs[r].conn)
    THEN Send(receiver_objs[r].conn,
              ReceiverMessage(receiver_objs[r].session_receiver_id, msg, data, by, via, r))
    ELSE UNCHANGED <<outbox, log>>

\* Mutant of ReceiverReadable: the slot is read without its lock.
ReceiverReadable_Always(ch) == TRUE

\* The receiver slot can be read: no join_channel holds it for writing.
ReceiverReadable(ch) == ch \notin receiver_wr

\* Mutant of ForwardToReceiver: the slot's receiver is used without upgrade().
ForwardToReceiver_Slot(c, ch, msg, data) ==
    /\ ReceiverReadable(ch)
    /\ IF channel_objs[ch].receiver # NoRef
       THEN ReceiverSend(channel_objs[ch].receiver, msg, data, c, "forward")
       ELSE UNCHANGED <<outbox, log>>

\* The second half of send_offer, sender_ice_candidate and
\* sender_all_ice_candidate_sent, and send_binary_data: receiver.read(),
\* upgrade, forward.
ForwardToReceiver(c, ch, msg, data) ==
    /\ ReceiverReadable(ch)
    /\ IF BoundReceiver(ch) # NoRef
       THEN ReceiverSend(BoundReceiver(ch), msg, data, c, "forward")
       ELSE UNCHANGED <<outbox, log>>

\* Mutant of SenderIdNotExist: the error goes to every connection.
SenderIdNotExist_ToAll(c, sid) ==
    /\ outbox' = [d \in Conns |->
                    Append(outbox[d], SenderError(sid, "SessionSenderIdIsNotExist", "", c))]
    /\ UNCHANGED log
    /\ UNCHANGED <<hub, pc, local>>

\* Socket::get_channel failing: the error reply, nothing else.
SenderIdNotExist(c, sid) ==
    /\ Send(c, SenderError(sid, "SessionSenderIdIsNotExist", "", c))
    /\ UNCHANGED <<hub, pc, local>>

\* Socket::send_offer, up to drop(var)
send_offer(c, sid, sdp) ==
    /\ CanRead(c)
    /\ nmsgs' = nmsgs + 1
    /\ IF sid \notin DOMAIN channel_senders[c]
       THEN SenderIdNotExist(c, sid)
       ELSE LET ch == channel_senders[c][sid] IN
            /\ ch \notin session_description_rd
            /\ channel_objs' = [channel_objs EXCEPT ![ch].session_description = sdp]
            /\ pc' = [pc EXCEPT ![c] = "send_offer"]
            /\ local' = [local EXCEPT ![c].ch = ch, ![c].arg = sdp]
            /\ UNCHANGED <<channels, receiver_objs, channel_senders, channel_receivers, outbox, log>>
    /\ UNCHANGED <<table, locks>>
    /\ UNCHANGED <<sink_vars, failing>>

\* Socket::send_offer, from `match &channel.kind`
send_offer_forward(c) ==
    /\ pc[c] = "send_offer"
    /\ ForwardToReceiver(c, local[c].ch, "ChannelOffer", local[c].arg)
    /\ pc' = [pc EXCEPT ![c] = "run"]
    /\ local' = [local EXCEPT ![c] = Returned(c)]
    /\ UNCHANGED <<hub, table, locks, nmsgs>>
    /\ UNCHANGED <<sink_vars, failing>>

\* Mutant of PushCandidate: the new candidate replaces the list.
PushCandidate_Replacing(obj, ice) ==
    [obj EXCEPT !.candidates = <<ice>>, !.all_sent = FALSE]

\* var.candidates.push(ice_candidate.clone()); var.all_sent = false;
\* on the ChannelIceCandidates of a sender or of a receiver.
PushCandidate(obj, ice) ==
    [obj EXCEPT !.candidates = Append(@, ice), !.all_sent = FALSE]

\* Socket::sender_ice_candidate, up to drop(var)
sender_ice_candidate(c, sid, ice) ==
    /\ CanRead(c)
    /\ nmsgs' = nmsgs + 1
    /\ IF sid \notin DOMAIN channel_senders[c]
       THEN SenderIdNotExist(c, sid)
       ELSE LET ch == channel_senders[c][sid] IN
            /\ ch \notin ice_candidates_rd
            /\ channel_objs' = [channel_objs EXCEPT ![ch] = PushCandidate(@, ice)]
            /\ pc' = [pc EXCEPT ![c] = "sender_ice_candidate"]
            /\ local' = [local EXCEPT ![c].ch = ch, ![c].arg = ice]
            /\ UNCHANGED <<channels, receiver_objs, channel_senders, channel_receivers, outbox, log>>
    /\ UNCHANGED <<table, locks>>
    /\ UNCHANGED <<sink_vars, failing>>

\* Socket::sender_ice_candidate, from `match &channel.kind`
sender_ice_candidate_forward(c) ==
    /\ pc[c] = "sender_ice_candidate"
    /\ ForwardToReceiver(c, local[c].ch, "IceCandidate", local[c].arg)
    /\ pc' = [pc EXCEPT ![c] = "run"]
    /\ local' = [local EXCEPT ![c] = Returned(c)]
    /\ UNCHANGED <<hub, table, locks, nmsgs>>
    /\ UNCHANGED <<sink_vars, failing>>

\* Socket::sender_all_ice_candidate_sent, up to drop(var)
sender_all_ice_candidate_sent(c, sid) ==
    /\ CanRead(c)
    /\ nmsgs' = nmsgs + 1
    /\ IF sid \notin DOMAIN channel_senders[c]
       THEN SenderIdNotExist(c, sid)
       ELSE LET ch == channel_senders[c][sid] IN
            /\ ch \notin ice_candidates_rd
            /\ channel_objs' = [channel_objs EXCEPT ![ch].all_sent = TRUE]
            /\ pc' = [pc EXCEPT ![c] = "sender_all_ice_candidate_sent"]
            /\ local' = [local EXCEPT ![c].ch = ch]
            /\ UNCHANGED <<channels, receiver_objs, channel_senders, channel_receivers, outbox, log>>
    /\ UNCHANGED <<table, locks>>
    /\ UNCHANGED <<sink_vars, failing>>

\* Socket::sender_all_ice_candidate_sent, from `match &channel.kind`
sender_all_ice_candidate_sent_forward(c) ==
    /\ pc[c] = "sender_all_ice_candidate_sent"
    /\ ForwardToReceiver(c, local[c].ch, "AllIceCandidatesSent", "")
    /\ pc' = [pc EXCEPT ![c] = "run"]
    /\ local' = [local EXCEPT ![c] = Returned(c)]
    /\ UNCHANGED <<hub, table, locks, nmsgs>>
    /\ UNCHANGED <<sink_vars, failing>>

\* Socket::send_binary_data
send_binary_data(c, sid, data) ==
    /\ CanRead(c)
    /\ nmsgs' = nmsgs + 1
    /\ IF sid \notin DOMAIN channel_senders[c]
       THEN SenderIdNotExist(c, sid)
       ELSE /\ ForwardToReceiver(c, channel_senders[c][sid], "BinaryData", data)
            /\ UNCHANGED <<hub, pc, local>>
    /\ UNCHANGED <<table, locks>>
    /\ UNCHANGED <<sink_vars, failing>>

\* ------------------------------------------------------------ join_channel

\* ChannelReceiver { channel, socket_sender, session_receiver_id, None, new() }
NewReceiver(ch, c, rid) ==
    [channel |-> ch, conn |-> c, session_receiver_id |-> rid,
     session_description |-> None, candidates |-> <<>>, all_sent |-> FALSE]

\* Mutant of ReplayLen: the replay ends after the candidates.
ReplayLen_WithoutFlag(ch) ==
    (IF channel_objs[ch].session_description # None THEN 1 ELSE 0)
    + Len(channel_objs[ch].candidates)

\* ChannelReceiver::send_offer_and_ice_candidates, frame by frame: the number
\* of frames it sends for the sender state it is given ...
ReplayLen(ch) ==
    (IF channel_objs[ch].session_description # None THEN 1 ELSE 0)
    + Len(channel_objs[ch].candidates)
    + (IF channel_objs[ch].all_sent THEN 1 ELSE 0)

\* Mutant of ReplayMsg: the candidates are replayed last in, first out.
ReplayMsg_Reversed(ch, n) ==
    LET o == IF channel_objs[ch].session_description # None THEN 1 ELSE 0 IN
    IF n < o
    THEN <<"ChannelOffer", channel_objs[ch].session_description>>
    ELSE IF n - o < Len(channel_objs[ch].candidates)
    THEN <<"IceCandidate",
           channel_objs[ch].candidates[Len(channel_objs[ch].candidates) - (n - o)]>>
    ELSE <<"AllIceCandidatesSent", "">>

\* ... and its frame number n (from 0): <<message, payload>>.
ReplayMsg(ch, n) ==
    LET o == IF channel_objs[ch].session_description # None THEN 1 ELSE 0 IN
    IF n < o
    THEN <<"ChannelOffer", channel_objs[ch].session_description>>
    ELSE IF n - o < Len(channel_objs[ch].candidates)
    THEN <<"IceCandidate", channel_objs[ch].candidates[n - o + 1]>>
    ELSE <<"AllIceCandidatesSent", "">>

\* Mutant of ChannelOccupied: a slot that was ever bound counts as occupied.
ChannelOccupied_Slot(ch) == channel_objs[ch].receiver # NoRef

\* Mutant of ChannelOccupied: the slot is never found occupied.
ChannelOccupied_Never(ch) == FALSE

\* The test of join_channel on the receiver slot: a live receiver is bound.
ChannelOccupied(ch) == BoundReceiver(ch) # NoRef

\* The locks join_channel holds while it replays: channels (write),
\* sender.session_description and sender.ice_candidates (read), receiver (write).
JoinLocked(c, ch) ==
    /\ channels_wr' = c
    /\ session_description_rd' = session_description_rd \cup {ch}
    /\ ice_candidates_rd' = ice_candidates_rd \cup {ch}
    /\ receiver_wr' = receiver_wr \cup {ch}
    /\ UNCHANGED senders_rd

\* Mutant of JoinUnlocked: the registry guard is not dropped.
JoinUnlocked_Holding(c, ch, rid, r) ==
    /\ channels_wr' = c
    /\ session_description_rd' = session_description_rd \ {ch}
    /\ ice_candidates_rd' = ice_candidates_rd \ {ch}
    /\ receiver_wr' = receiver_wr \ {ch}
    /\ channel_receivers' = [channel_receivers EXCEPT ![c] = MapPut(@, rid, r)]
    /\ pc' = [pc EXCEPT ![c] = "update_snapshot"]
    /\ UNCHANGED senders_rd

\* The end of join_channel's critical section: the guards are dropped and the
\* receiver is moved into channel_receivers; update_open_channel_ids follows.
JoinUnlocked(c, ch, rid, r) ==
    /\ channels_wr' = NoRef
    /\ session_description_rd' = session_description_rd \ {ch}
    /\ ice_candidates_rd' = ice_candidates_rd \ {ch}
    /\ receiver_wr' = receiver_wr \ {ch}
    /\ channel_receivers' = [channel_receivers EXCEPT ![c] = MapPut(@, rid, r)]
    /\ pc' = [pc EXCEPT ![c] = "update_snapshot"]
    /\ UNCHANGED senders_rd

\* Socket::join_channel, up to the replay
join_channel(c, rid, k) ==
    /\ CanRead(c)
    /\ nmsgs' = nmsgs + 1
    /\ UNCHANGED <<table, channels, channel_senders>>
    /\ IF rid \in DOMAIN channel_receivers[c]
       THEN /\ Send(c, ReceiverError(rid, "SessionReceiverIdIsAlreadyUsed", "", c))
            /\ UNCHANGED <<channel_objs, receiver_objs, channel_receivers, pc, local, locks>>
       ELSE /\ channels_wr = NoRef
            /\ IF k \notin DOMAIN channels \/ ~ChannelAlive(channels[k])
               THEN /\ Send(c, ReceiverError(rid, "ChannelIsNotExist", k, c))
                    /\ UNCHANGED <<channel_objs, receiver_objs, channel_receivers,
                                   pc, local, locks>>
               ELSE IF ChannelOccupied(channels[k])
               THEN /\ Send(c, ReceiverError(rid, "ChannelIsAlreadyOccupied", k, c))
                    /\ UNCHANGED <<channel_objs, receiver_objs, channel_receivers,
                                   pc, local, locks>>
               ELSE LET ch == channels[k]
                        r == Len(receiver_objs) + 1 IN
                    /\ receiver_objs' = Append(receiver_objs, NewReceiver(ch, c, rid))
                    /\ channel_objs' = [channel_objs EXCEPT ![ch].receiver = r]
                    /\ local' = [local EXCEPT ![c].cause = "join", ![c].ch = ch,
                                              ![c].r = r, ![c].n = 0]
                    /\ UNCHANGED <<outbox, log>>
                    /\ IF ReplayLen(ch) = 0
                       THEN /\ channel_receivers' =
                                 [channel_receivers EXCEPT ![c] = MapPut(@, rid, r)]
                            /\ pc' = [pc EXCEPT ![c] = "update_snapshot"]
                            /\ UNCHANGED locks
                       ELSE /\ JoinLocked(c, ch)
                            /\ pc' = [pc EXCEPT ![c] = "join_replay"]
                            /\ UNCHANGED channel_receivers
    /\ UNCHANGED <<sink_vars, failing>>

\* One frame of send_offer_and_ice_candidates; after the last one the rest of
\* join_channel up to update_open_channel_ids.
join_replay(c) ==
    /\ pc[c] = "join_replay"
    /\ LET ch == local[c].ch
           r == local[c].r
           m == ReplayMsg(ch, local[c].n) IN
       /\ ReceiverSend(r, m[1], m[2], c, "replay")
       /\ IF local[c].n + 1 >= ReplayLen(ch)
          THEN /\ JoinUnlocked(c, ch, receiver_objs[r].session_receiver_id, r)
               /\ UNCHANGED local
          ELSE /\ local' = [local EXCEPT ![c].n = @ + 1]
               /\ UNCHANGED <<locks, channel_receivers, pc>>
    /\ UNCHANGED <<table, channels, channel_objs, receiver_objs, channel_senders, nmsgs>>
    /\ UNCHANGED <<sink_vars, failing>>

\* ------------------------------------------------- the receiver's handlers

\* Socket::get_receiver failing: the error reply, nothing else.
ReceiverIdNotExist(c, rid) ==
    /\ Send(c, ReceiverError(rid, "SessionReceiverIdIsNotExist", "", c))
    /\ UNCHANGED <<hub, pc, local>>

\* Socket::exit_channel
exit_channel(c, rid) ==
    /\ CanRead(c)
    /\ nmsgs' = nmsgs + 1
    /\ IF rid \in DOMAIN channel_receivers[c]
       THEN /\ channel_receivers' = [channel_receivers EXCEPT ![c] = MapDel(@, rid)]
            /\ UNCHANGED <<channels, channel_objs, receiver_objs, channel_senders,
                           pc, local, outbox, log>>
       ELSE ReceiverIdNotExist(c, rid)
    /\ UNCHANGED <<table, locks>>
    /\ UNCHANGED <<sink_vars, failing>>

\* Mutant of ForwardToSender: the frame goes back to the receiver's connection.
ForwardToSender_Self(c, r, msg, data) ==
    LET ch == receiver_objs[r].channel IN
    IF ChannelAlive(ch) /\ SocketAlive(channel_objs[ch].conn)
    THEN Send(c, SenderMessage(channel_objs[ch].session_sender_id, msg, data, c, "forward"))
    ELSE UNCHANGED <<outbox, log>>

\* Mutant of ForwardToSender: the Weak<Channel> of the receiver is not
\* upgraded, the owner's connection is written to if it is there.
ForwardToSender_Stale(c, r, msg, data) ==
    LET ch == receiver_objs[r].channel IN
    IF SocketAlive(channel_objs[ch].conn)
    THEN Send(channel_objs[ch].conn,
              SenderMessage(channel_objs[ch].session_sender_id, msg, data, c, "forward"))
    ELSE UNCHANGED <<outbox, log>>

\* impl ChannelSender: send_answer / send_ice_candidate /
\* send_all_ice_candidate_sent of the channel the receiver's Weak upgrades to.
ForwardToSender(c, r, msg, data) ==
    LET ch == receiver_objs[r].channel IN
    IF ChannelAlive(ch) /\ SocketAlive(channel_objs[ch].conn)
    THEN Send(channel_objs[ch].conn,
              SenderMessage(channel_objs[ch].session_sender_id, msg, data, c, "forward"))
    ELSE UNCHANGED <<outbox, log>>

\* Socket::send_answer
send_answer(c, rid, sdp) ==
    /\ CanRead(c)
    /\ nmsgs' = nmsgs + 1
    /\ IF rid \notin DOMAIN channel_receivers[c]
       THEN ReceiverIdNotExist(c, rid)
       ELSE LET r == channel_receivers[c][rid] IN
            /\ receiver_objs' = [receiver_objs EXCEPT ![r].session_description = sdp]
            /\ ForwardToSender(c, r, "ChannelAnswer", sdp)
            /\ UNCHANGED <<channels, channel_objs, channel_senders, channel_receivers,
                           pc, local>>
    /\ UNCHANGED <<table, locks>>
    /\ UNCHANGED <<sink_vars, failing>>

\* Socket::receiver_ice_candidate
receiver_ice_candidate(c, rid, ice) ==
    /\ CanRead(c)
    /\ nmsgs' = nmsgs + 1
    /\ IF rid \notin DOMAIN channel_receivers[c]
       THEN ReceiverIdNotExist(c, rid)
       ELSE LET r == channel_receivers[c][rid] IN
            /\ receiver_objs' = [receiver_objs EXCEPT ![r] = PushCandidate(@, ice)]
            /\ ForwardToSender(c, r, "IceCandidate", ice)
            /\ UNCHANGED <<channels, channel_objs, channel_senders, channel_receivers,
                           pc, local>>
    /\ UNCHANGED <<table, locks>>
    /\ UNCHANGED <<sink_vars, failing>>

\* Socket::receiver_all_ice_candidate_sent
receiver_all_ice_candidate_sent(c, rid) ==
    /\ CanRead(c)
    /\ nmsgs' = nmsgs + 1
    /\ IF rid \notin DOMAIN channel_receivers[c]
       THEN ReceiverIdNotExist(c, rid)
       ELSE LET r == channel_receivers[c][rid] IN
            /\ receiver_objs' = [receiver_objs EXCEPT ![r].all_sent = TRUE]
            /\ ForwardToSender(c, r, "AllIceCandidatesSent", "")
            /\ UNCHANGED <<channels, channel_objs, channel_senders, channel_receivers,
                           pc, local>>
    /\ UNCHANGED <<table, locks>>
    /\ UNCHANGED <<sink_vars, failing>>

\* ------------------------------------------------ the end of a connection

\* Mutant of decode_error: the failure ends the inbound loop.
decode_error_Fatal(c) ==
    /\ CanRead(c)
    /\ nmsgs' = nmsgs + 1
    /\ log' = log \cup {Logged(c, "ClientMessage deserialization error")}
    /\ pc' = [pc EXCEPT ![c] = "clear"]
    /\ UNCHANGED <<hub, table, locks, local, outbox>>
    /\ UNCHANGED <<sink_vars, failing>>

\* Socket::run: a Binary frame that does not deserialize is logged.
decode_error(c) ==
    /\ CanRead(c)
    /\ nmsgs' = nmsgs + 1
    /\ log' = log \cup {Logged(c, "ClientMessage deserialization error")}
    /\ UNCHANGED <<hub, table, locks, pc, local, outbox>>
    /\ UNCHANGED <<sink_vars, failing>>

\* Mutant of OwnedChannelIds: clear() finds no channel to remove.
OwnedChannelIds_None(c) == {}

\* The registry keys Socket::clear hands to remove_channels: the channel_id of
\* every channel in channel_senders (its Weak<ChannelId> upgrades while the
\* registry still holds the key).
OwnedChannelIds(c) == {k \in DOMAIN channels : channels[k] \in Range(channel_senders[c])}

\* Socket::run leaving the loop on Message::Close or on any other non-Binary
\* frame, and Socket::clear up to ServerData::remove_channels.
run_break(c, frame) ==
    /\ CanRead(c)
    /\ nmsgs' = nmsgs + 1
    /\ channels_wr = NoRef
    /\ channels' = [k \in (DOMAIN channels) \ OwnedChannelIds(c) |-> channels[k]]
    /\ channel_senders' = [channel_senders EXCEPT ![c] = EmptyMap]
    /\ pc' = [pc EXCEPT ![c] = "clear"]
    /\ local' = [local EXCEPT ![c].end = frame]
    /\ UNCHANGED <<table, channel_objs, receiver_objs, channel_receivers, locks, outbox, log>>
    /\ UNCHANGED <<sink_vars, failing>>

\* Mutant of clear: the connection stays in the table.
clear_Keeping(c) ==
    /\ pc[c] = "clear"
    /\ senders_rd = {}
    /\ channel_receivers' = [channel_receivers EXCEPT ![c] = EmptyMap]
    /\ pc' = [pc EXCEPT ![c] = "update_snapshot"]
    /\ local' = [local EXCEPT ![c].cause = "end"]
    /\ UNCHANGED <<table, channels, channel_objs, receiver_objs,
                   channel_senders, locks, outbox, log, nmsgs>>
    /\ UNCHANGED <<sink_vars, failing>>

\* Socket::clear from senders().write(): the connection leaves the table, the
\* Socket is dropped; Server::run then calls update_open_channel_ids.
clear(c) ==
    /\ pc[c] = "clear"
    /\ senders_rd = {}
    /\ channel_receivers' = [channel_receivers EXCEPT ![c] = EmptyMap]
    /\ IF socket_id[c] \in DOMAIN senders
       THEN /\ senders' = MapDel(senders, socket_id[c])
            /\ pc' = [pc EXCEPT ![c] = "update_snapshot"]
            /\ local' = [local EXCEPT ![c].cause = "end"]
       ELSE \* assert!(prev_sender.is_some()) fails: the task unwinds
            /\ pc' = [pc EXCEPT ![c] = "panicked"]
            /\ local' = [local EXCEPT ![c].end = "Assert"]
            /\ UNCHANGED senders
    /\ UNCHANGED <<next_socket_id, socket_id, channels, channel_objs, receiver_objs,
                   channel_senders, locks, outbox, log, nmsgs>>
    /\ UNCHANGED <<sink_vars, failing>>

\* Socket::run: socket_receiver.next() yields None or Some(Err(_)) and the
\* unwrap panics.  The task unwinds and drops the Socket; neither clear() nor
\* the update_open_channel_ids after Socket::run is reached.
socket_dropped(c) ==
    /\ CanRead(c)
    /\ nmsgs' = nmsgs + 1
    /\ channel_senders' = [channel_senders EXCEPT ![c] = EmptyMap]
    /\ channel_receivers' = [channel_receivers EXCEPT ![c] = EmptyMap]
    /\ pc' = [pc EXCEPT ![c] = "panicked"]
    /\ local' = [local EXCEPT ![c].end = "Abrupt"]
    /\ UNCHANGED <<table, channels, channel_objs, receiver_objs, locks, outbox, log>>
    /\ UNCHANGED <<sink_vars, failing>>

\* ------------------------------------------------------------------- spec

\* A frame read by worker c and the handler Socket::run dispatches it to.
Handle(c) ==
    \/ \E sid \in SessionIds, k \in ChannelIds, mode \in NetworkModes :
         open_channel(c, sid, k, mode)
    \/ \E sid \in SessionIds : close_channel(c, sid)
    \/ \E sid \in SessionIds, sdp \in Sdps : send_offer(c, sid, sdp)
    \/ \E sid \in SessionIds, ice \in Candidates : sender_ice_candidate(c, sid, ice)
    \/ \E sid \in SessionIds : sender_all_ice_candidate_sent(c, sid)
    \/ \E sid \in SessionIds, data \in Payloads : send_binary_data(c, sid, data)
    \/ \E rid \in SessionIds, k \in ChannelIds : join_channel(c, rid, k)
    \/ \E rid \in SessionIds : exit_channel(c, rid)
    \/ \E rid \in SessionIds, sdp \in Sdps : send_answer(c, rid, sdp)
    \/ \E rid \in SessionIds, ice \in Candidates : receiver_ice_candidate(c, rid, ice)
    \/ \E rid \in SessionIds : receiver_all_ice_candidate_sent(c, rid)
    \/ decode_error(c)
    \/ \E frame \in {"Close", "Text"} : run_break(c, frame)
    \/ socket_dropped(c)

\* A step of a handler in progress.
Continue(c) ==
    \/ update_snapshot(c)
    \/ update_send(c)
    \/ send_offer_forward(c)
    \/ sender_ice_candidate_forward(c)
    \/ sender_all_ice_candidate_sent_forward(c)
    \/ join_replay(c)
    \/ clear(c)

Next == \E c \in Conns : Accept(c) \/ Handle(c) \/ Continue(c)

Spec == Init /\ [][Next]_vars

\* --------------------------------------------------- a hub already in use

\* The candidate lists of the seeded states: the prefixes of c1, c2, ...
SeedCandidates == {SubSeq(<<"c1", "c2", "c1">>, 1, n) : n \in 0..MaxSeedIce}

\* The states reached from Init when two sockets were accepted one after the
\* other, worker 1 opened channel "a" as sender 1 and then sent an offer (or
\* none), ICE candidates and AllIceCandidatesSent (or not), every handler and
\* broadcast having run to its end, before anyone joined.
InitSeeded ==
    /\ SinkIdle
    /\ NumConns >= 2
    /\ next_socket_id = U32(0, NumConns)
    /\ socket_id = [c \in Conns |-> U32(0, c - 1)]
    /\ channels = MapPut(EmptyMap, "a", 1)
    /\ senders = [id \in {U32(0, n) : n \in 0..(NumConns - 1)} |-> id.lo + 1]
    /\ \E sdp \in Sdps \cup {None}, ice \in SeedCandidates, all \in BOOLEAN :
         channel_objs = <<[NewChannel(1, 1, "a") EXCEPT
                             !.session_description = sdp,
                             !.candidates = ice,
                             !.all_sent = all]>>
    /\ receiver_objs = <<>>
    /\ channel_senders = [c \in Conns |-> IF c = 1 THEN MapPut(EmptyMap, 1, 1) ELSE EmptyMap]
    /\ channel_receivers = [c \in Conns |-> EmptyMap]
    /\ channels_wr = NoRef
    /\ senders_rd = {}
    /\ session_description_rd = {}
    /\ ice_candidates_rd = {}
    /\ receiver_wr = {}
    /\ pc = [c \in Conns |-> "run"]
    /\ local = [c \in Conns |-> NoLocal]
    /\ outbox = [c \in Conns |->
                   [i \in 1..(NumConns - c + 2) |->
                      IF i = NumConns - c + 2
                      THEN OpenChannelIdsChanged({"a"}, 1, "open")
                      ELSE OpenChannelIdsChanged({}, c + i - 1, "accept")]]
    /\ nmsgs = 0

NextSeeded == \E c \in Conns : Handle(c) \/ Continue(c)

SpecSeeded == InitSeeded /\ [][NextSeeded]_vars

\* ------------------------------------- concurrent sends on one connection

\* Several tasks call SocketSender::send on the same connection, each for
\* FramesPerSite frames one after the other; the hub is otherwise at rest.
NextWire == \E s \in Sites : send_lock(s) \/ send_part(s)

SpecWire == Init /\ [][NextWire]_vars

\* ------------------------------------------------ guards alive at a write

\* The workers that are about to forward a stored event to the receiver.
Forwarding == {"send_offer", "sender_ice_candidate", "sender_all_ice_candidate_sent"}

\* The registry and channel-field guards that are alive in the code while
\* worker c, in its next step, writes a frame to the receiver's connection:
\* `let receiver = receiver.read().await` of the forwarding handlers, and the
\* four guards of join_channel around send_offer_and_ice_candidates.
GuardsAtWrite(c) ==
    CASE pc[c] \in Forwarding -> {"receiver"}
      [] pc[c] = "join_replay" ->
            {"channels", "session_description", "ice_candidates", "receiver"}
      [] OTHER -> {}

\* ------------------------------------------------------------ scheduling

\* The runtime polls every task that is ready, and a lock a handler waits for
\* is granted once it is free: a handler in progress takes its next step.
SpecLive == SpecSeeded /\ \A c \in Conns : WF_vars(Continue(c))

\* --------------------------------------- a hub with a channel of another id

\* Every connection is accepted and connection 1 has opened channel "b" under
\* sender id 1; the requests that follow name channel ids of ChannelIds.
InitScoped ==
    /\ SinkIdle
    /\ NumConns >= 2
    /\ next_socket_id = U32(0, NumConns)
    /\ socket_id = [c \in Conns |-> U32(0, c - 1)]
    /\ channels = MapPut(EmptyMap, "b", 1)
    /\ senders = [id \in {U32(0, n) : n \in 0..(NumConns - 1)} |-> id.lo + 1]
    /\ channel_objs = <<NewChannel(1, 1, "b")>>
    /\ receiver_objs = <<>>
    /\ channel_senders = [c \in Conns |-> IF c = 1 THEN MapPut(EmptyMap, 1, 1) ELSE EmptyMap]
    /\ channel_receivers = [c \in Conns |-> EmptyMap]
    /\ channels_wr = NoRef
    /\ senders_rd = {}
    /\ session_description_rd = {}
    /\ ice_candidates_rd = {}
    /\ receiver_wr = {}
    /\ pc = [c \in Conns |-> "run"]
    /\ local = [c \in Conns |-> NoLocal]
    /\ outbox = [c \in Conns |->
                   [i \in 1..(NumConns - c + 2) |->
                      IF i = NumConns - c + 2
                      THEN OpenChannelIdsChanged({"b"}, 1, "open")
                      ELSE OpenChannelIdsChanged({}, c + i - 1, "accept")]]
    /\ nmsgs = 0

SpecScoped == InitScoped /\ [][NextSeeded]_vars

\* ------------------------------------------------- a hub that has run long

\* The counter values the long-running hub starts from: the last one before
\* the wrap-around, and the first one after it.
WrapValues == {U32(Limb - 1, Limb - 1), U32(0, 0)}

\* The first connection ever accepted (id 0) is still open and every later
\* one has come and gone; next_socket_id is about to wrap around or has just
\* done so.  The frames those connections caused are left out of outbox.
InitWrap ==
    /\ SinkIdle
    /\ next_socket_id \in WrapValues
    /\ socket_id = [c \in Conns |-> U32(0, 0)]
    /\ channels = EmptyMap
    /\ senders = MapPut(EmptyMap, U32(0, 0), 1)
    /\ channel_objs = <<>>
    /\ receiver_objs = <<>>
    /\ channel_senders = [c \in Conns |-> EmptyMap]
    /\ channel_receivers = [c \in Conns |-> EmptyMap]
    /\ channels_wr = NoRef
    /\ senders_rd = {}
    /\ session_description_rd = {}
    /\ ice_candidates_rd = {}
    /\ receiver_wr = {}
    /\ pc = [c \in Conns |-> IF c = 1 THEN "run" ELSE "idle"]
    /\ local = [c \in Conns |-> NoLocal]
    /\ outbox = [c \in Conns |-> IF c = 1 THEN <<OpenChannelIdsChanged({}, 1, "accept")>>
                                          ELSE <<>>]
    /\ nmsgs = 0

SpecWrap == InitWrap /\ [][Next]_vars

\* ------------------------------------------------------- failing writes

\* From now on the sink of connection c answers every write with Err (the
\* peer is gone, the worker has not read the end of its stream yet).
sink_fails(c) ==
    /\ SocketAlive(c)
    /\ c \notin failing
    /\ Cardinality(failing) < MaxFailing
    /\ failing' = failing \cup {c}
    /\ UNCHANGED <<hub_vars_but_failing, sink_vars>>

NextFaulty == \E c \in Conns : Accept(c) \/ Handle(c) \/ Continue(c) \/ sink_fails(c)

SpecFaulty == Init /\ [][NextFaulty]_vars

\* ================================================================== claims

\* The frames of a connection's outbox that satisfy a test.
Frames(c) == {outbox[c][i] : i \in 1..Len(outbox[c])}

\* The channels of id k that a sender session holds in its channel_senders.
OwnedChannels(k) == {ch \in 1..Len(channel_objs) :
                       /\ channel_objs[ch].channel_id = k
                       /\ \E c \in Conns : ch \in Range(channel_senders[c])}

\* ---------------------------------------------------------------------- C1

\* A step in which worker c handles OpenChannel{k, PeerToPeer} with a sender
\* id that is not in its sender map.
C1_Step(c, sid, k) ==
    /\ sid \notin DOMAIN channel_senders[c]
    /\ open_channel(c, sid, k, "PeerToPeer")

\* The request created the channel: registry entry and sender map entry, no reply.
C1_Created(c, sid, k) ==
    /\ k \notin DOMAIN channels
    /\ k \in DOMAIN channels'
    /\ sid \in DOMAIN channel_senders'[c]
    /\ channel_senders'[c][sid] = channels'[k]
    /\ channel_objs'[channels'[k]].channel_id = k
    /\ outbox' = outbox

\* The request was refused: the error reply and no other change.
C1_Refused(c, sid, k) ==
    /\ k \in DOMAIN channels
    /\ outbox' = [outbox EXCEPT ![c] = Append(@, SenderError(sid, "ChannelIdIsAlreadyUsed", k, c))]
    /\ channels' = channels
    /\ channel_senders' = channel_senders
    /\ channel_objs' = channel_objs

\* C1: of the OpenChannel{k, PeerToPeer} requests with fresh sender ids that
\* race for a channel id which is not in the registry, the one handled first
\* creates the channel and every later one is answered with
\* Error(ChannelIdAlreadyUsed(k)) and changes neither the registry nor its own
\* sender map; under no interleaving do two sender sessions hold a channel of
\* the same id, and the registry maps the id to the one that is held.
C1_MutualExclusion ==
    /\ [][\A c \in Conns, sid \in SessionIds, k \in ChannelIds :
            C1_Step(c, sid, k) => (C1_Created(c, sid, k) \/ C1_Refused(c, sid, k))]_vars
    /\ [](\A k \in ChannelIds :
            /\ Cardinality(OwnedChannels(k)) <= 1
            /\ \A ch \in OwnedChannels(k) : k \in DOMAIN channels /\ channels[k] = ch)

\* Two connections have both asked for "a": one owns the channel and was sent
\* no error, the other owns nothing and was sent ChannelIdAlreadyUsed("a").
C1_Witness ==
    \E c1, c2 \in Conns :
        /\ c1 # c2
        /\ \E sid \in DOMAIN channel_senders[c1] :
             channel_objs[channel_senders[c1][sid]].channel_id = "a"
        /\ \A f \in Frames(c1) : f.msg # "Error"
        /\ channel_senders[c2] = EmptyMap
        /\ \E f \in Frames(c2) : f.err = "ChannelIdIsAlreadyUsed" /\ f.data = "a"

\* ---------------------------------------------------------------------- C2

\* The frames written for receiver r, in the order its connection got them.
FramesFor(r) == SelectSeq(outbox[receiver_objs[r].conn], LAMBDA f : f.r = r)

\* What receiver r was sent, as <<message, payload>> pairs.
Received(r) == [i \in 1..Len(FramesFor(r)) |-> <<FramesFor(r)[i].msg, FramesFor(r)[i].data>>]

\* The replay a joiner of channel ch is owed for the sender state stored now:
\* the offer if one is stored, the candidates in insertion order, then
\* AllIceCandidatesSent iff all_sent is set.
C2_Expected(ch) ==
    (IF channel_objs[ch].session_description # None
     THEN << <<"ChannelOffer", channel_objs[ch].session_description>> >>
     ELSE << >>)
    \o [i \in 1..Len(channel_objs[ch].candidates) |->
          <<"IceCandidate", channel_objs[ch].candidates[i]>>]
    \o (IF channel_objs[ch].all_sent THEN << <<"AllIceCandidatesSent", "">> >> ELSE << >>)

\* While a join replays, the joiner's connection has received for the new
\* receiver exactly the first n frames of the replay, as ReceiverMessage
\* frames carrying the receiver id of the join.
C2_ReplayInProgress ==
    \A c \in Conns :
        pc[c] = "join_replay" =>
            /\ Received(local[c].r) = SubSeq(C2_Expected(local[c].ch), 1, local[c].n)
            /\ \A i \in 1..Len(FramesFor(local[c].r)) :
                 /\ FramesFor(local[c].r)[i].tag = "ReceiverMessage"
                 /\ FramesFor(local[c].r)[i].id = receiver_objs[local[c].r].session_receiver_id
                 /\ FramesFor(local[c].r)[i].via = "replay"

\* The step that ends a join (the receiver enters channel_receivers) leaves
\* the whole replay, and nothing else, received for the new receiver.
C2_ReplayComplete ==
    \A c \in Conns, r \in 1..Len(receiver_objs'), ch \in 1..Len(channel_objs) :
        (/\ r \notin Range(channel_receivers[c])
         /\ r \in Range(channel_receivers'[c])
         /\ receiver_objs'[r].channel = ch)
            => Received(r)' = C2_Expected(ch)'

\* C2: the first frames a joiner's connection receives for the receiver id of
\* its JoinChannel(k) are the replay of the sender state stored when the join
\* is handled: ChannelOffer(O) if an offer is stored, every accumulated
\* candidate in insertion order, AllIceCandidatesSent iff all_sent is set; so
\* after SendOffer(O), IceCandidate(c1), IceCandidate(c2), AllIceCandidatesSent
\* they are ChannelOffer(O), IceCandidate(c1), IceCandidate(c2),
\* AllIceCandidatesSent in that order.
C2_JoinThenReplay == [](C2_ReplayInProgress) /\ [][C2_ReplayComplete]_vars

\* A join of a channel whose owner had sent o1, c1, c2 and
\* AllIceCandidatesSent has ended, and the receiver got those four frames.
C2_Witness ==
    \E c \in Conns, r \in 1..Len(receiver_objs) :
        /\ r \in Range(channel_receivers[c])
        /\ Received(r) = << <<"ChannelOffer", "o1">>, <<"IceCandidate", "c1">>,
                            <<"IceCandidate", "c2">>, <<"AllIceCandidatesSent", "">> >>

\* ---------------------------------------------------------------------- C3

\* C3: a frame the owner's SendOffer, IceCandidate, AllIceCandidatesSent or
\* SendBinaryData handler forwards live to a new receiver is enqueued on the
\* receiver's connection after all replay frames of that receiver's join, and
\* never while the replay is still running: no live-forwarded frame comes
\* before or between the replay frames.
C3_ForwardAfterReplay ==
    /\ \A c \in Conns : \A i, j \in 1..Len(outbox[c]) :
          (/\ i < j
           /\ outbox[c][i].r # NoRef
           /\ outbox[c][i].r = outbox[c][j].r
           /\ outbox[c][j].via = "replay")
              => outbox[c][i].via = "replay"
    /\ \A c \in Conns :
          pc[c] = "join_replay" =>
              \A f \in Frames(c) : f.r = local[c].r => f.via = "replay"

\* One join and one owner IceCandidate were read; the replay carried more
\* candidates than any initial state stores, so the owner's handler had stored
\* its candidate before the replay and forwarded it after the join bound the
\* receiver: the two handlers overlapped, and the forward is behind the replay.
C3_Witness ==
    \E r \in 1..Len(receiver_objs) :
        /\ nmsgs = 2
        /\ Len(SelectSeq(FramesFor(r), LAMBDA f : f.via = "replay" /\ f.msg = "IceCandidate"))
             = MaxSeedIce + 1
        /\ FramesFor(r)[Len(FramesFor(r))].via = "forward"
        /\ FramesFor(r)[Len(FramesFor(r))].msg = "IceCandidate"

\* ---------------------------------------------------------------------- C4

\* The live receivers created for channel ch.
LiveReceivers(ch) ==
    {r \in 1..Len(receiver_objs) : receiver_objs[r].channel = ch /\ ReceiverAlive(r)}

\* Connection c handles JoinChannel(k) with an unused receiver id rid while k
\* names a live channel that a live receiver is bound to.
C4_JoinOccupied(c, rid, k) ==
    /\ join_channel(c, rid, k)
    /\ rid \notin DOMAIN channel_receivers[c]
    /\ k \in DOMAIN channels
    /\ ChannelAlive(channels[k])
    /\ LiveReceivers(channels[k]) # {}

\* The join is refused: the error reply is the only effect.
C4_Refused(c, rid, k) ==
    /\ outbox' = [outbox EXCEPT ![c] =
                    Append(@, ReceiverError(rid, "ChannelIsAlreadyOccupied", k, c))]
    /\ UNCHANGED <<channel_objs, receiver_objs, channel_receivers, channels, locks>>
    /\ pc'[c] = "run"

\* C4: a PeerToPeer channel has at most one live receiver, and it is the one
\* in the channel's receiver slot; a JoinChannel(k) that finds a live receiver
\* bound to k (also one that waited for the join that bound it) is answered
\* with Error(ChannelIsAlreadyOccupied(k)) and changes neither the receiver
\* slot nor the joining session's receiver map.
C4_Exclusivity ==
    /\ [](\A ch \in 1..Len(channel_objs) :
            /\ Cardinality(LiveReceivers(ch)) <= 1
            /\ \A r \in LiveReceivers(ch) : channel_objs[ch].receiver = r)
    /\ [][\A c \in Conns, rid \in SessionIds, k \in ChannelIds :
            C4_JoinOccupied(c, rid, k) => C4_Refused(c, rid, k)]_vars

\* Two joins of one channel were read; the first replayed the stored state
\* and holds the channel, the second was refused.
C4_Witness ==
    \E c \in Conns, r \in 1..Len(receiver_objs) :
        /\ nmsgs = 2
        /\ ReceiverAlive(r)
        /\ channel_objs[receiver_objs[r].channel].receiver = r
        /\ Len(FramesFor(r)) > 0
        /\ \E f \in Frames(c) : f.msg = "Error" /\ f.err = "ChannelIsAlreadyOccupied"

\* ---------------------------------------------------------------------- C5

\* What the owner of channel ch has stored for replay.
Stored(ch) == <<channel_objs[ch].session_description, channel_objs[ch].candidates,
                channel_objs[ch].all_sent>>

\* The receiver bound to channel ch has left: the slot still names it, it is
\* dead, and the owner still holds the channel.
ReceiverLeft(ch) ==
    /\ ch \in Range(channel_senders[channel_objs[ch].conn])
    /\ channel_objs[ch].receiver # NoRef
    /\ ~ReceiverAlive(channel_objs[ch].receiver)

\* A step in which the bound receiver of an open channel leaves (ExitChannel,
\* the end of its connection by a Close frame or by the loss of the socket)
\* changes nothing of what the owner stored.
C5_LeaveKeepsStored ==
    \A ch \in 1..Len(channel_objs) :
        (~ReceiverLeft(ch) /\ ReceiverLeft(ch)') => Stored(ch)' = Stored(ch)

\* A JoinChannel(k) with an unused receiver id, handled after the bound
\* receiver left, binds a new receiver and replies no error.
C5_JoinAfterLeave ==
    \A c \in Conns, rid \in SessionIds, k \in ChannelIds :
        (/\ join_channel(c, rid, k)
         /\ rid \notin DOMAIN channel_receivers[c]
         /\ k \in DOMAIN channels
         /\ ReceiverLeft(channels[k]))
            => /\ Len(receiver_objs') = Len(receiver_objs) + 1
               /\ channel_objs'[channels[k]].receiver = Len(receiver_objs')
               /\ receiver_objs'[Len(receiver_objs')] = NewReceiver(channels[k], c, rid)
               /\ outbox' = outbox
               /\ Stored(channels[k])' = Stored(channels[k])

\* When the join of a receiver that took over a left receiver's channel ends,
\* it has received the stored offer, candidates and AllIceCandidatesSent.
C5_Replayed ==
    \A c \in Conns, r \in 2..Len(receiver_objs'), ch \in 1..Len(channel_objs) :
        (/\ r \notin Range(channel_receivers[c])
         /\ r \in Range(channel_receivers'[c])
         /\ receiver_objs'[r].channel = ch
         /\ \E q \in 1..(r - 1) : receiver_objs'[q].channel = ch)
            => Received(r)' = C2_Expected(ch)

\* C5: after the bound receiver of an open PeerToPeer channel leaves, by
\* ExitChannel or by the end of its connection, the owner's stored offer and
\* ICE accumulator are unchanged, and the next JoinChannel(k) with a fresh
\* receiver id succeeds and is replayed the stored offer, candidates and
\* AllIceCandidatesSent.
C5_RejoinAfterLeave ==
    [][C5_LeaveKeepsStored /\ C5_JoinAfterLeave /\ C5_Replayed]_vars

\* A second receiver has joined a channel after the first one left, and was
\* replayed the offer the owner had stored.
C5_Witness ==
    \E c \in Conns, r \in 2..Len(receiver_objs) :
        /\ r \in Range(channel_receivers[c])
        /\ \E q \in 1..(r - 1) :
             receiver_objs[q].channel = receiver_objs[r].channel /\ ~ReceiverAlive(q)
        /\ Len(Received(r)) > 0
        /\ Received(r)[1] = <<"ChannelOffer", "o1">>

\* ---------------------------------------------------------------------- C6

\* Connection c has read a Close frame and is past the loop of Socket::run.
EndedByClose(c) ==
    /\ pc[c] \in {"clear", "update_snapshot", "update_send", "done"}
    /\ local[c].end = "Close"

\* Connection c never had a CloseChannel handled: it was sent no broadcast
\* that a CloseChannel of its own caused.
NoCloseChannel(c) == \A f \in Frames(c) : ~(f.by = c /\ f.via = "close")

\* The registry holds no entry of a channel of a connection that ended by a
\* Close frame.
C6_EntriesRemoved ==
    \A c \in Conns :
        (EndedByClose(c) /\ NoCloseChannel(c))
            => \A k \in DOMAIN channels : channel_objs[channels[k]].conn # c

\* The list the ended connection's worker takes for its last broadcast names
\* no channel of that connection, and every frame of that broadcast carries
\* the list.
C6_ListTaken ==
    \A c \in Conns :
        (/\ EndedByClose(c) /\ NoCloseChannel(c)
         /\ pc[c] = "update_snapshot" /\ pc'[c] = "update_send")
            => \A k \in local'[c].snap :
                   k \in DOMAIN channels /\ channel_objs[channels[k]].conn # c

C6_ListSent ==
    \A c \in Conns :
        (EndedByClose(c) /\ pc[c] = "update_send")
            => \A d \in Conns : \A f \in Frames(d) :
                   (f.by = c /\ f.via = "end") => f.ids = local[c].snap

\* When the last broadcast is over every live connection has been sent it.
C6_BroadcastDone ==
    \A c \in Conns :
        (EndedByClose(c) /\ NoCloseChannel(c) /\ pc[c] = "update_send" /\ pc'[c] = "done")
            => \A d \in Conns :
                   SocketAlive(d) =>
                       \E f \in Frames(d)' :
                           /\ f.tag = "OpenChannelIdsChanged"
                           /\ f.by = c /\ f.via = "end" /\ f.ids = local[c].snap

\* An OpenChannel{k, PeerToPeer} with an unused sender id, handled when every
\* channel that ever had the id k belonged to a connection that ended by a
\* Close frame, creates the channel.
C6_Reopened ==
    \A d \in Conns, sid \in SessionIds, k \in ChannelIds :
        (/\ C1_Step(d, sid, k)
         /\ \E ch \in 1..Len(channel_objs) : channel_objs[ch].channel_id = k
         /\ \A ch \in 1..Len(channel_objs) :
                channel_objs[ch].channel_id = k
                    => EndedByClose(channel_objs[ch].conn)
                       /\ NoCloseChannel(channel_objs[ch].conn))
            => C1_Created(d, sid, k)

DroppedAbruptly(c) == pc[c] = "panicked" /\ local[c].end = "Abrupt"

\* C7: after the owning connection of channel k is dropped abruptly, having
\* sent neither CloseChannel nor a Close frame, its resources are released: a
\* later OpenChannel{k, PeerToPeer} with an unused sender id, handled when
\* every channel that ever had the id k belonged to such a connection, creates
\* the channel.
C7_AbruptDropReclaimed ==
    [][\A d \in Conns, sid \in SessionIds, k \in ChannelIds :
          (/\ C1_Step(d, sid, k)
           /\ \E ch \in 1..Len(channel_objs) : channel_objs[ch].channel_id = k
           /\ \A ch \in 1..Len(channel_objs) :
                  channel_objs[ch].channel_id = k
                      => DroppedAbruptly(channel_objs[ch].conn)
                         /\ NoCloseChannel(channel_objs[ch].conn))
              => C1_Created(d, sid, k)]_vars

\* ---------------------------------------------------------------------- C8

\* The registry entry of k names a channel its owner closed by CloseChannel:
\* the owner's connection is running and no longer holds the channel.
ClosedByOwner(k) ==
    /\ k \in DOMAIN channels
    /\ SocketAlive(channel_objs[channels[k]].conn)
    /\ channels[k] \notin Range(channel_senders[channel_objs[channels[k]].conn])

\* C8: after the owner's CloseChannel the dead registry entry of k behaves as
\* absent: an OpenChannel{k, PeerToPeer} with an unused sender id creates a
\* new channel, registered under k and held by the requesting session, and is
\* answered with no error.
C8_ClosedIdReusable ==
    [][\A d \in Conns, sid \in SessionIds, k \in ChannelIds :
          (C1_Step(d, sid, k) /\ ClosedByOwner(k))
              => /\ Len(channel_objs') = Len(channel_objs) + 1
                 /\ channels'[k] = Len(channel_objs')
                 /\ sid \in DOMAIN channel_senders'[d]
                 /\ channel_senders'[d][sid] = channels'[k]
                 /\ outbox' = outbox]_vars

\* ---------------------------------------------------------------------- C9

\* The worker of connection c takes the list of a broadcast in this step.
ListTaken(c) == pc[c] = "update_snapshot" /\ pc'[c] = "update_send"

\* Connection c handles an ExitChannel of a receiver bound to a live channel.
C9_Exit(c, rid) ==
    /\ exit_channel(c, rid)
    /\ rid \in DOMAIN channel_receivers[c]
    /\ ChannelAlive(receiver_objs[channel_receivers[c][rid]].channel)
    /\ BoundReceiver(receiver_objs[channel_receivers[c][rid]].channel)
         = channel_receivers[c][rid]

\* C9: after the bound receiver of a live PeerToPeer channel k exits, the hub
\* broadcasts an OpenChannelIdsChanged that lists k again: the ExitChannel
\* handler goes on to a broadcast, and every list taken while the receiver
\* that was bound to a live channel has left names the channel.
C9_Readvertised ==
    [][/\ \A c \in Conns, rid \in SessionIds :
            C9_Exit(c, rid) => pc'[c] = "update_snapshot"
       /\ \A c \in Conns, k \in DOMAIN channels :
            (ListTaken(c) /\ ReceiverLeft(channels[k])) => k \in local'[c].snap]_vars

\* --------------------------------------------------------------------- C10

\* No handler and no broadcast is in progress.
Quiescent == \A c \in Conns : pc[c] \in {"idle", "run", "done", "panicked"}

\* The ids of the live channels that no live receiver is bound to.
AdvertiseableSet ==
    {k \in DOMAIN channels :
        ChannelAlive(channels[k]) /\ BoundReceiver(channels[k]) = NoRef}

\* The OpenChannelIdsChanged frames connection c was sent, in order.
Lists(c) == SelectSeq(outbox[c], LAMBDA f : f.tag = "OpenChannelIdsChanged")

\* C10: in a quiescent state the last OpenChannelIdsChanged sent to each live
\* connection carries the advertiseable set of that state.  Stated for the
\* executions in which no connection was lost and no receiver ever joined, so
\* that only the order of the broadcasts decides.
C10_Convergence ==
    (/\ Quiescent
     /\ receiver_objs = << >>
     /\ \A c \in Conns : pc[c] # "panicked"
     /\ \A k \in DOMAIN channels : ChannelAlive(channels[k]))
        => \A c \in Conns :
               pc[c] = "run"
                   => /\ Len(Lists(c)) > 0
                      /\ Lists(c)[Len(Lists(c))].ids = AdvertiseableSet

\* --------------------------------------------------------------------- C11

\* C11: frames written to one connection by concurrent call sites go into
\* the sink one at a time: the parts of a frame are adjacent and in order, no
\* part of another frame comes between them, and the frames of one call site
\* appear in the order it sent them.
C11_FramesWhole ==
    /\ \A i \in 1..Len(sink) :
          IF sink[i].part = 1
          THEN i = 1 \/ sink[i - 1].part = PartsPerFrame
          ELSE /\ i > 1
               /\ sink[i - 1].by = sink[i].by
               /\ sink[i - 1].seq = sink[i].seq
               /\ sink[i - 1].part = sink[i].part - 1
    /\ \A i, j \in 1..Len(sink) :
          (i < j /\ sink[i].by = sink[j].by) => sink[i].seq <= sink[j].seq

\* Every call site has sent all its frames, and the frames of different call
\* sites alternate in the sink.
C11_Witness ==
    /\ Len(sink) = NumSites * FramesPerSite * PartsPerFrame
    /\ \A n \in 1..(NumSites * FramesPerSite - 1) :
          sink[n * PartsPerFrame].by # sink[n * PartsPerFrame + 1].by

\* --------------------------------------------------------------------- C12

\* The message a sender handler forwards from each of its second halves.
ForwardedMsg(p) ==
    CASE p = "send_offer" -> "ChannelOffer"
      [] p = "sender_ice_candidate" -> "IceCandidate"
      [] p = "sender_all_ice_candidate_sent" -> "AllIceCandidatesSent"

\* Worker c ends the handler of an owner's SendOffer, IceCandidate or
\* AllIceCandidatesSent in this step.
C12_Forwards(c) ==
    /\ pc[c] \in {"send_offer", "sender_ice_candidate", "sender_all_ice_candidate_sent"}
    /\ pc'[c] = "run"

\* What the handler in progress was sent is what it stored in the channel.
C12_AsSent ==
    \A c \in Conns :
        /\ pc[c] = "send_offer"
             => channel_objs[local[c].ch].session_description = local[c].arg
        /\ pc[c] = "sender_ice_candidate"
             => /\ Len(channel_objs[local[c].ch].candidates) > 0
                /\ channel_objs[local[c].ch].candidates[Len(channel_objs[local[c].ch].candidates)]
                     = local[c].arg
        /\ pc[c] = "sender_all_ice_candidate_sent" => local[c].arg = ""

\* With a live receiver bound, the handler ends by writing one frame, to the
\* receiver's connection: Receiver{receiver id, message(payload as sent)}.
C12_Forwarded ==
    \A c \in Conns, r \in 1..Len(receiver_objs) :
        (C12_Forwards(c) /\ BoundReceiver(local[c].ch) = r)
            => outbox' = [outbox EXCEPT ![receiver_objs[r].conn] =
                            Append(@, [tag |-> "ReceiverMessage",
                                       id |-> receiver_objs[r].session_receiver_id,
                                       msg |-> ForwardedMsg(pc[c]),
                                       err |-> "", data |-> local[c].arg, ids |-> {},
                                       by |-> c, via |-> "forward", r |-> r])]

\* The candidates forwarded to receiver r, in the order it was sent them.
ForwardedCandidates(r) ==
    LET fs == SelectSeq(FramesFor(r),
                        LAMBDA f : f.via = "forward" /\ f.msg = "IceCandidate")
    IN  [i \in 1..Len(fs) |-> fs[i].data]

\* 1 if the owner of channel ch has stored a candidate it has yet to forward.
Unforwarded(ch) ==
    IF pc[channel_objs[ch].conn] = "sender_ice_candidate"
       /\ local[channel_objs[ch].conn].ch = ch
    THEN 1 ELSE 0

\* The candidates forwarded to a bound receiver are the candidates the owner
\* sent since the first of them, all of them and in the order sent: the end
\* of the channel's list, less the one the owner is about to forward.
C12_InOrder ==
    \A r \in 1..Len(receiver_objs) :
        LET ch == receiver_objs[r].channel
            cs == channel_objs[ch].candidates
            n  == Len(ForwardedCandidates(r))
        IN  (ReceiverAlive(r) /\ channel_objs[ch].receiver = r)
                => /\ n + Unforwarded(ch) <= Len(cs)
                   /\ ForwardedCandidates(r)
                        = SubSeq(cs, Len(cs) - Unforwarded(ch) - n + 1,
                                 Len(cs) - Unforwarded(ch))

\* C12: while receiver R is bound to channel k, every SendOffer, IceCandidate
\* and AllIceCandidatesSent of the owner is forwarded to R's connection as
\* Receiver{R's receiver id, ...}, exactly as sent and in the order sent.
C12_SenderForwarding ==
    [](C12_AsSent /\ C12_InOrder) /\ [][C12_Forwarded]_vars

\* A bound receiver was forwarded two different candidates, c1 before c2,
\* after its join.
C12_Witness ==
    \E r \in 1..Len(receiver_objs) :
        /\ ReceiverAlive(r)
        /\ ForwardedCandidates(r) = <<"c1", "c2">>

\* --------------------------------------------------------------------- C13

\* Worker c handles message msg with payload data of its receiver rid.
C13_Handles(c, rid, msg, data) ==
    \/ msg = "ChannelAnswer" /\ data \in Sdps /\ send_answer(c, rid, data)
    \/ msg = "IceCandidate" /\ data \in Candidates /\ receiver_ice_candidate(c, rid, data)
    \/ msg = "AllIceCandidatesSent" /\ data = "" /\ receiver_all_ice_candidate_sent(c, rid)

\* The handler forwards: one frame, Sender{owner's sender id, msg(data)}, to
\* the connection of the channel's owner if that connection is there, and
\* nothing to any other connection.
C13_Forwarded ==
    \A c \in Conns, rid \in SessionIds,
       msg \in {"ChannelAnswer", "IceCandidate", "AllIceCandidatesSent"},
       data \in Sdps \cup Candidates \cup {""} :
        (/\ C13_Handles(c, rid, msg, data)
         /\ rid \in DOMAIN channel_receivers[c]
         /\ ChannelAlive(receiver_objs[channel_receivers[c][rid]].channel))
            => LET ch == receiver_objs[channel_receivers[c][rid]].channel IN
               IF SocketAlive(channel_objs[ch].conn)
               THEN outbox' = [outbox EXCEPT ![channel_objs[ch].conn] =
                                 Append(@, [tag |-> "SenderMessage",
                                            id |-> channel_objs[ch].session_sender_id,
                                            msg |-> msg, err |-> "", data |-> data,
                                            ids |-> {}, by |-> c, via |-> "forward",
                                            r |-> NoRef])]
               ELSE outbox' = outbox

\* The candidates worker c forwarded to connection d, in the order d was sent them.
AnswerCandidates(c, d) ==
    LET fs == SelectSeq(outbox[d], LAMBDA f : /\ f.tag = "SenderMessage" /\ f.by = c
                                               /\ f.via = "forward"
                                               /\ f.msg = "IceCandidate")
    IN  [i \in 1..Len(fs) |-> fs[i].data]

\* For the first receiver of a connection: while its channel and the owner's
\* connection are alive, the owner has been sent every candidate the
\* receiver sent, in the order sent.
C13_InOrder ==
    \A r \in 1..Len(receiver_objs) :
        LET c  == receiver_objs[r].conn
            ch == receiver_objs[r].channel
        IN  (/\ \A q \in 1..Len(receiver_objs) : receiver_objs[q].conn = c => q = r
             /\ ChannelAlive(ch)
             /\ SocketAlive(channel_objs[ch].conn))
                => AnswerCandidates(c, channel_objs[ch].conn) = receiver_objs[r].candidates

\* C13: SendAnswer, IceCandidate and AllIceCandidatesSent of a receiver whose
\* channel is alive are forwarded, in the order sent, to the connection of
\* the channel's owner as Sender{owner's sender id, ChannelAnswer /
\* IceCandidate / AllIceCandidatesSent}, and to no other connection.
C13_ReceiverForwarding == [](C13_InOrder) /\ [][C13_Forwarded]_vars

\* The owner was forwarded c1 and then c2 from a receiver of its channel.
C13_Witness ==
    \E r \in 1..Len(receiver_objs) :
        /\ receiver_objs[r].candidates = <<"c1", "c2">>
        /\ AnswerCandidates(receiver_objs[r].conn,
                            channel_objs[receiver_objs[r].channel].conn) = <<"c1", "c2">>

\* --------------------------------------------------------------------- C14

\* SendBinaryData(data) of the owner of a channel delivers one frame
\* Receiver{receiver id, BinaryData(data)} to the connection of the live
\* bound receiver and nothing to any other connection; with no live bound
\* receiver it writes nothing; in both cases nothing is stored.
C14_Delivered ==
    \A c \in Conns, sid \in SessionIds, data \in Payloads :
        (send_binary_data(c, sid, data) /\ sid \in DOMAIN channel_senders[c])
            => LET ch == channel_senders[c][sid]
                   r  == BoundReceiver(ch) IN
               /\ UNCHANGED <<channel_objs, receiver_objs, channels,
                              channel_senders, channel_receivers>>
               /\ IF r # NoRef
                  THEN outbox' = [outbox EXCEPT ![receiver_objs[r].conn] =
                                    Append(@, [tag |-> "ReceiverMessage",
                                               id |-> receiver_objs[r].session_receiver_id,
                                               msg |-> "BinaryData", err |-> "",
                                               data |-> data, ids |-> {}, by |-> c,
                                               via |-> "forward", r |-> r])]
                  ELSE outbox' = outbox

\* No frame of a replay, and no frame other than a live forward to a
\* receiver, carries BinaryData.
C14_NeverReplayed ==
    \A c \in Conns : \A f \in Frames(c) :
        f.msg = "BinaryData"
            => f.via = "forward" /\ f.tag = "ReceiverMessage" /\ f.r # NoRef

\* C14: SendBinaryData(bytes) from the owner of an occupied PeerToPeer
\* channel delivers exactly one BinaryData frame with the same bytes to the
\* bound receiver and to nobody else; with no live bound receiver the data is
\* dropped, and it is never stored or replayed to a later joiner.
C14_BinaryRelay == [](C14_NeverReplayed) /\ [][C14_Delivered]_vars

\* A receiver that joined after a replay was delivered the bytes d1.
C14_Witness ==
    \E r \in 1..Len(receiver_objs) :
        /\ Len(FramesFor(r)) > 1
        /\ FramesFor(r)[1].via = "replay"
        /\ FramesFor(r)[Len(FramesFor(r))].msg = "BinaryData"
        /\ FramesFor(r)[Len(FramesFor(r))].data = "d1"

\* --------------------------------------------------------------------- C15

\* The channel worker c created last.
LastOpened(c) ==
    CHOOSE ch \in 1..Len(channel_objs) :
        /\ channel_objs[ch].conn = c
        /\ \A q \in 1..Len(channel_objs) : channel_objs[q].conn = c => q <= ch

\* Worker c is in the broadcast that follows its OpenChannel.
OpenBroadcast(c) ==
    pc[c] \in {"update_snapshot", "update_send"} /\ local[c].cause = "open"

\* A successful OpenChannel{k, PeerToPeer} stores a new channel, with no
\* offer, no candidate, all_sent false and an empty slot, in the registry and
\* in the session's sender map, and goes on to the broadcast.
C15_Stored ==
    \A c \in Conns, sid \in SessionIds, k \in ChannelIds :
        (C1_Step(c, sid, k) /\ k \notin DOMAIN channels)
            => /\ channel_objs' = Append(channel_objs,
                     [channel_id |-> k, conn |-> c, session_sender_id |-> sid,
                      session_description |-> None, candidates |-> << >>,
                      all_sent |-> FALSE, receiver |-> NoRef])
               /\ channels' = MapPut(channels, k, Len(channel_objs'))
               /\ channel_senders' =
                    [channel_senders EXCEPT ![c] = MapPut(@, sid, Len(channel_objs'))]
               /\ outbox' = outbox
               /\ pc'[c] = "update_snapshot" /\ local'[c].cause = "open"

\* The list taken for that broadcast names the new channel.
C15_Listed ==
    \A c \in Conns :
        (OpenBroadcast(c) /\ ListTaken(c))
            => channel_objs[LastOpened(c)].channel_id \in local'[c].snap

\* The list taken for that broadcast names the new channel if no receiver has
\* joined it by then, and does not name it while a live receiver is bound.
C15_ListedUnlessJoined ==
    \A c \in Conns :
        (OpenBroadcast(c) /\ ListTaken(c))
            => /\ channel_objs[LastOpened(c)].receiver = NoRef
                    => channel_objs[LastOpened(c)].channel_id \in local'[c].snap
               /\ BoundReceiver(LastOpened(c)) # NoRef
                    => channel_objs[LastOpened(c)].channel_id \notin local'[c].snap

\* When that broadcast is over, every live connection has been sent the list.
C15_Sent ==
    \A c \in Conns :
        (OpenBroadcast(c) /\ pc'[c] = "run")
            => \A d \in Conns :
                   SocketAlive(d) =>
                       \E f \in Frames(d)' :
                           /\ f.tag = "OpenChannelIdsChanged"
                           /\ f.by = c /\ f.via = "open" /\ f.ids = local[c].snap

\* C15 as stated: a successful OpenChannel{k, PeerToPeer} stores a new
\* channel (no offer, empty ICE accumulator, all_sent false, no receiver) in
\* the registry and the sender map, and then every live connection is sent an
\* OpenChannelIdsChanged that includes k.
C15_OpenAdvertised == [][C15_Stored /\ C15_Listed /\ C15_Sent]_vars

\* C15, amended: ... and then every live connection is sent an
\* OpenChannelIdsChanged, which includes k if no JoinChannel(k) has bound a
\* receiver before the list was taken and does not include k while a live
\* receiver is bound.
C15_OpenAdvertisedUnlessJoined ==
    [][C15_Stored /\ C15_ListedUnlessJoined /\ C15_Sent]_vars

\* Both connections were sent the list with "a" by the worker that opened it.
C15_Witness ==
    \E c \in Conns :
        /\ pc[c] = "run"
        /\ "a" \in DOMAIN channels /\ channels["a"] \in Range(channel_senders[c])
        /\ \A d \in Conns : \E f \in Frames(d) :
               f.by = c /\ f.via = "open" /\ f.ids = {"a"}

\* --------------------------------------------------------------------- C16

\* Worker c is in the broadcast that follows a JoinChannel it bound.
JoinBroadcast(c) ==
    pc[c] \in {"update_snapshot", "update_send"} /\ local[c].cause = "join"

\* The step that ends a binding join starts a broadcast.
C16_Broadcasts ==
    \A c \in Conns, r \in 1..Len(receiver_objs') :
        (r \notin Range(channel_receivers[c]) /\ r \in Range(channel_receivers'[c]))
            => /\ pc'[c] = "update_snapshot"
               /\ local'[c].cause = "join"
               /\ local'[c].ch = receiver_objs'[r].channel

\* The list taken for that broadcast does not name the joined channel.
C16_NotListed ==
    \A c \in Conns :
        (JoinBroadcast(c) /\ ListTaken(c))
            => /\ \A k \in local'[c].snap : channels[k] # local[c].ch
               /\ (channel_objs[local[c].ch].channel_id \in DOMAIN channels
                   /\ channels[channel_objs[local[c].ch].channel_id] = local[c].ch)
                     => channel_objs[local[c].ch].channel_id \notin local'[c].snap

\* When that broadcast is over, every live connection has been sent the list.
C16_Sent ==
    \A c \in Conns :
        (JoinBroadcast(c) /\ pc'[c] = "run")
            => \A d \in Conns :
                   SocketAlive(d) =>
                       \E f \in Frames(d)' :
                           /\ f.tag = "OpenChannelIdsChanged"
                           /\ f.by = c /\ f.via = "join" /\ f.ids = local[c].snap

\* C16: after a JoinChannel binds a receiver to channel k, every live
\* connection, also one that is neither the owner nor the receiver, is sent
\* an OpenChannelIdsChanged, taken after the binding, whose list does not
\* include k.
C16_JoinUnadvertised == [][C16_Broadcasts /\ C16_NotListed /\ C16_Sent]_vars

\* Connection 1 owns channel "a" and joined it itself; connection 2, neither
\* owner nor receiver, was sent the list of that join, without "a".
C16_Witness ==
    /\ pc[1] = "run"
    /\ \E r \in Range(channel_receivers[1]) :
         /\ channel_objs[receiver_objs[r].channel].conn = 1
         /\ channel_objs[receiver_objs[r].channel].channel_id = "a"
    /\ channel_receivers[2] = EmptyMap /\ channel_senders[2] = EmptyMap
    /\ \E f \in Frames(2) : f.by = 1 /\ f.via = "join" /\ "a" \notin f.ids

\* --------------------------------------------------------------------- C17

\* Every id of a list names, when the list is taken, a channel that its
\* owner's session holds, whose owner is connected, and whose slot is empty.
C17_ListSound ==
    \A c \in Conns :
        ListTaken(c)
            => \A k \in local'[c].snap :
                   /\ k \in DOMAIN channels
                   /\ channels[k] \in Range(channel_senders[channel_objs[channels[k]].conn])
                   /\ SocketAlive(channel_objs[channels[k]].conn)
                   /\ BoundReceiver(channels[k]) = NoRef
                   /\ channel_objs[channels[k]].channel_id = k

\* Every OpenChannelIdsChanged written carries the list its sender took.
C17_ListCarried ==
    \A d \in Conns :
        (/\ Len(outbox'[d]) = Len(outbox[d]) + 1
         /\ outbox'[d][Len(outbox'[d])].tag = "OpenChannelIdsChanged")
            => LET f == outbox'[d][Len(outbox'[d])] IN
               /\ pc[f.by] = "update_send"
               /\ f.ids = local[f.by].snap
               /\ f.via = local[f.by].cause

C18_Step(c, sid, k, mode) ==
    /\ sid \in DOMAIN channel_senders[c]
    /\ open_channel(c, sid, k, mode)

\* The only effect is the error reply to c: no change to the registry, to any
\* sender or receiver map, to any channel or receiver, to the table or to a
\* lock, and no broadcast is started.
C18_OnlyError(c, sid) ==
    /\ outbox' = [outbox EXCEPT ![c] =
                    Append(@, [tag |-> "SenderMessage", id |-> sid, msg |-> "Error",
                               err |-> "SessionSenderIdIsAlreadyUsed", data |-> "",
                               ids |-> {}, by |-> c, via |-> "reply", r |-> NoRef])]
    /\ UNCHANGED <<hub, table, locks, local>>
    /\ pc'[c] = "run" /\ pc' = pc

\* C18: OpenChannel with a sender id already in the session's sender map is
\* answered with Error(SenderIdAlreadyUsed) and nothing else; the test comes
\* before the test of the channel id, and the registry, the sender map, the
\* existing channels are unchanged and no broadcast happens.
C18_SenderIdAlreadyUsed ==
    [][\A c \in Conns, sid \in SessionIds, k \in ChannelIds, mode \in NetworkModes :
          C18_Step(c, sid, k, mode) => C18_OnlyError(c, sid)]_vars

\* Connection c owns "a" under sender id 1, asked to open a channel under
\* sender id 1 again, and was sent SenderIdAlreadyUsed and no
\* ChannelIdAlreadyUsed, although the only channel id is in the registry.
C18_Witness ==
    \E c \in Conns :
        /\ 1 \in DOMAIN channel_senders[c]
        /\ "a" \in DOMAIN channels /\ channels["a"] = channel_senders[c][1]
        /\ \E f \in Frames(c) : f.err = "SessionSenderIdIsAlreadyUsed" /\ f.id = 1
        /\ \A f \in Frames(c) : f.err # "ChannelIdIsAlreadyUsed"

\* --------------------------------------------------------------------- C19

\* Worker c handles a sender-side message naming sender id sid.
C19_SenderSide(c, sid) ==
    \/ \E sdp \in Sdps : send_offer(c, sid, sdp)
    \/ \E ice \in Candidates : sender_ice_candidate(c, sid, ice)
    \/ sender_all_ice_candidate_sent(c, sid)
    \/ \E data \in Payloads : send_binary_data(c, sid, data)
    \/ close_channel(c, sid)

\* Worker c handles a receiver-side message naming receiver id rid.
C19_ReceiverSide(c, rid) ==
    \/ \E sdp \in Sdps : send_answer(c, rid, sdp)
    \/ \E ice \in Candidates : receiver_ice_candidate(c, rid, ice)
    \/ receiver_all_ice_candidate_sent(c, rid)
    \/ exit_channel(c, rid)

\* The only effect is frame f appended to c's own outbox: nothing is stored,
\* forwarded or broadcast, and worker c goes on reading.
C19_OnlyReply(c, f) ==
    /\ outbox' = [outbox EXCEPT ![c] = Append(@, f)]
    /\ UNCHANGED <<hub, table, locks, local>>
    /\ pc' = pc /\ pc'[c] = "run"

\* C19: a sender-side message with a sender id that is not in the session's
\* sender map is answered with Error(SenderIdNotExist), a receiver-side
\* message with a receiver id that is not in its receiver map with
\* Error(ReceiverIdNotExist); the reply goes to that session only, no state
\* changes, nothing is forwarded or broadcast, and the session continues.
C19_UnknownId ==
    [][\A c \in Conns, id \in SessionIds :
          /\ (C19_SenderSide(c, id) /\ id \notin DOMAIN channel_senders[c])
                => C19_OnlyReply(c, [tag |-> "SenderMessage", id |-> id, msg |-> "Error",
                                     err |-> "SessionSenderIdIsNotExist", data |-> "",
                                     ids |-> {}, by |-> c, via |-> "reply", r |-> NoRef])
          /\ (C19_ReceiverSide(c, id) /\ id \notin DOMAIN channel_receivers[c])
                => C19_OnlyReply(c, [tag |-> "ReceiverMessage", id |-> id, msg |-> "Error",
                                     err |-> "SessionReceiverIdIsNotExist", data |-> "",
                                     ids |-> {}, by |-> c, via |-> "reply", r |-> NoRef])]_vars

\* While the other connection owns "a", connection c has been sent both
\* errors, holds no sender and no receiver, and goes on reading; the owner
\* was sent no error.
C19_Witness ==
    \E c, d \in Conns :
        /\ c # d
        /\ pc[c] = "run"
        /\ channel_senders[c] = EmptyMap /\ channel_receivers[c] = EmptyMap
        /\ 1 \in DOMAIN channel_senders[d] /\ ChannelAlive(channel_senders[d][1])
        /\ \E f \in Frames(c) : f.err = "SessionSenderIdIsNotExist"
        /\ \E f \in Frames(c) : f.err = "SessionReceiverIdIsNotExist"
        /\ \A f \in Frames(d) : f.msg # "Error"

\* --------------------------------------------------------------------- C20

\* The registry has no entry for k, or no strong reference to the entry's
\* channel is left: neither a sender map nor a join in progress holds it.
C20_NoChannel(k) ==
    \/ k \notin DOMAIN channels
    \/ /\ \A d \in Conns : channels[k] \notin Range(channel_senders[d])
       /\ \A d \in Conns : ~(local[d].cause = "join" /\ local[d].ch = channels[k])

\* The only effect is the error reply to c: no receiver is created, bound or
\* stored, nothing is replayed, no broadcast is started.
C20_Refused(c, rid, err, data) ==
    /\ outbox' = [outbox EXCEPT ![c] =
                    Append(@, [tag |-> "ReceiverMessage", id |-> rid, msg |-> "Error",
                               err |-> err, data |-> data, ids |-> {}, by |-> c,
                               via |-> "reply", r |-> NoRef])]
    /\ UNCHANGED <<hub, table, locks, local>>
    /\ pc' = pc /\ pc'[c] = "run"

\* C20: JoinChannel{k} is answered with Error(ReceiverIdAlreadyUsed) if the
\* receiver id is in the session's receiver map, and otherwise with
\* Error(ChannelIsNotExist(k)) if k has no registry entry or a dead one; in
\* both cases no receiver is bound or stored and no replay or broadcast is sent.
C20_JoinRefused ==
    [][\A c \in Conns, rid \in SessionIds, k \in ChannelIds :
          join_channel(c, rid, k)
             => /\ rid \in DOMAIN channel_receivers[c]
                     => C20_Refused(c, rid, "SessionReceiverIdIsAlreadyUsed", "")
                /\ (rid \notin DOMAIN channel_receivers[c] /\ C20_NoChannel(k))
                     => C20_Refused(c, rid, "ChannelIsNotExist", k)]_vars

\* Connection c was sent the list of the owner's CloseChannel and after it
\* ChannelIsNotExist("a"); the registry still has the entry of "a", its slot
\* is empty and c holds no receiver.
C20_Witness ==
    \E c \in Conns : \E i, j \in 1..Len(outbox[c]) :
        /\ i < j
        /\ outbox[c][i].tag = "OpenChannelIdsChanged" /\ outbox[c][i].via = "close"
        /\ outbox[c][i].by # c
        /\ outbox[c][j].err = "ChannelIsNotExist" /\ outbox[c][j].data = "a"
        /\ "a" \in DOMAIN channels
        /\ channel_objs[channels["a"]].receiver = NoRef
        /\ channel_receivers[c] = EmptyMap

\* --------------------------------------------------------------------- C21

\* Worker c handles OpenChannel{k, ClientServer} with a sender id that is not
\* in its sender map and a channel id that is not in the registry.
C21_Step(c, sid, k) ==
    /\ sid \notin DOMAIN channel_senders[c]
    /\ k \notin DOMAIN channels
    /\ open_channel(c, sid, k, "ClientServer")

\* Nothing changes but the log: no registry entry, no sender map entry, no
\* frame to any connection, no broadcast started, the worker goes on reading.
C21_NoEffect(c, sid, k) ==
    /\ UNCHANGED <<hub, table, locks, local, outbox>>
    /\ pc' = pc /\ pc'[c] = "run"
    /\ k \notin DOMAIN channels'
    /\ sid \notin DOMAIN channel_senders'[c]
    /\ log' = log \cup {[by |-> c, what |-> "not implemented"]}

\* The sender id and the channel id are as free as before: a PeerToPeer
\* request for them would create the channel.
C21_StillFree(c, sid, k) ==
    /\ ~SenderIdOccupied(c, sid)'
    /\ ~ChannelIdOccupied(k)'

\* C21: OpenChannel{k, ClientServer} with a fresh sender id and a channel id
\* that is not in the registry changes nothing: no registry entry, no sender
\* map entry, no reply and no broadcast, so the same sender id and the same k
\* can still be used by a later OpenChannel{k, PeerToPeer}.
C21_ClientServerIgnored ==
    [][\A c \in Conns, sid \in SessionIds, k \in ChannelIds :
          C21_Step(c, sid, k) => (C21_NoEffect(c, sid, k) /\ C21_StillFree(c, sid, k))]_vars

\* Connection c logged "not implemented" and owns "a" under sender id 1: its
\* ClientServer request came first (after its own PeerToPeer request the
\* sender id would have been refused) and was sent no reply.
C21_Witness ==
    \E c \in Conns :
        /\ [by |-> c, what |-> "not implemented"] \in log
        /\ nmsgs = 2
        /\ 1 \in DOMAIN channel_senders[c]
        /\ "a" \in DOMAIN channels /\ channels["a"] = channel_senders[c][1]
        /\ \A d \in Conns : \A f \in Frames(d) : f.msg # "Error"

\* --------------------------------------------------------------------- C22

\* Sequence s is the beginning of sequence t.
C22_IsPrefix(s, t) == Len(s) <= Len(t) /\ SubSeq(t, 1, Len(s)) = s

\* The stored fields of an entity: description, candidates, all_sent.
C22_Fields(obj) == <<obj.session_description, obj.candidates, obj.all_sent>>

\* What each message does to the stored fields of the sender it names.
C22_Sender ==
    \A c \in Conns, sid \in SessionIds :
        sid \in DOMAIN channel_senders[c]
            => LET ch  == channel_senders[c][sid]
                   old == channel_objs[ch]
                   new == channel_objs'[ch] IN
               /\ \A ice \in Candidates :
                      sender_ice_candidate(c, sid, ice)
                          => C22_Fields(new) = <<old.session_description,
                                                 Append(old.candidates, ice), FALSE>>
               /\ sender_all_ice_candidate_sent(c, sid)
                      => C22_Fields(new) = <<old.session_description, old.candidates, TRUE>>
               /\ \A sdp \in Sdps :
                      send_offer(c, sid, sdp)
                          => C22_Fields(new) = <<sdp, old.candidates, old.all_sent>>

\* What each message does to the stored fields of the receiver it names.
C22_Receiver ==
    \A c \in Conns, rid \in SessionIds :
        rid \in DOMAIN channel_receivers[c]
            => LET r   == channel_receivers[c][rid]
                   old == receiver_objs[r]
                   new == receiver_objs'[r] IN
               /\ \A ice \in Candidates :
                      receiver_ice_candidate(c, rid, ice)
                          => C22_Fields(new) = <<old.session_description,
                                                 Append(old.candidates, ice), FALSE>>
               /\ receiver_all_ice_candidate_sent(c, rid)
                      => C22_Fields(new) = <<old.session_description, old.candidates, TRUE>>
               /\ \A sdp \in Sdps :
                      send_answer(c, rid, sdp)
                          => C22_Fields(new) = <<sdp, old.candidates, old.all_sent>>

\* No step removes or reorders the candidates of a channel or of a receiver.
C22_AppendOnly ==
    /\ \A ch \in 1..Len(channel_objs) :
           C22_IsPrefix(channel_objs[ch].candidates, channel_objs'[ch].candidates)
    /\ \A r \in 1..Len(receiver_objs) :
           C22_IsPrefix(receiver_objs[r].candidates, receiver_objs'[r].candidates)

\* C22: for the ICE accumulator and the description of a sender or receiver,
\* IceCandidate appends the candidate at the end and sets all_sent to false,
\* AllIceCandidatesSent sets all_sent to true and leaves the list unchanged,
\* SendOffer/SendAnswer replaces the description and leaves the accumulator
\* unchanged, and no operation removes or reorders candidates.
C22_Accumulator == [][C22_Sender /\ C22_Receiver /\ C22_AppendOnly]_vars

\* The channel had two candidates and got a third, its all_sent is false, and
\* its receiver has stored an answer-side candidate of its own.
C22_Witness ==
    /\ channel_objs[1].candidates = <<"c1", "c2", "c2">>
    /\ ~channel_objs[1].all_sent
    /\ \E r \in 1..Len(receiver_objs) :
           /\ receiver_objs[r].channel = 1
           /\ receiver_objs[r].candidates = <<"c1">>
           /\ ~receiver_objs[r].all_sent

\* --------------------------------------------------------------------- C23

\* Only the log changes: the maps of every session, the registry, every
\* channel and receiver, the table and the locks are as before, no frame is
\* written to any connection, and worker c is back at reading its socket.
C23_Dropped(c) ==
    /\ UNCHANGED <<hub, table, locks, local, outbox>>
    /\ pc' = pc /\ pc'[c] = "run"
    /\ log' = log \cup {[by |-> c, what |-> "ClientMessage deserialization error"]}

\* C23: a binary frame that fails to decode is logged and dropped: the
\* session's sender and receiver maps, the registry and every channel stay
\* unchanged, nothing is sent to any connection, and the worker goes on to
\* handle the next frame of the same connection.
C23_DecodeFailure == [][\A c \in Conns : decode_error(c) => C23_Dropped(c)]_vars

\* Connection c has logged a decode failure, owns "a" with a stored offer, and
\* is reading: of its three frames the other two were handled as usual.
C23_Witness ==
    \E c \in Conns :
        /\ [by |-> c, what |-> "ClientMessage deserialization error"] \in log
        /\ pc[c] = "run"
        /\ nmsgs = 3
        /\ 1 \in DOMAIN channel_senders[c]
        /\ channel_objs[channel_senders[c][1]].channel_id = "a"
        /\ channel_objs[channel_senders[c][1]].session_description = "o1"
        /\ \A d \in Conns : \A f \in Frames(d) : f.msg # "Error"

\* --------------------------------------------------------------------- C24

\* Worker c, in the loop over senders.values(), takes a step.
C24_LoopStep(c) ==
    /\ pc[c] = "update_send"
    /\ local'[c] # local[c] \/ pc'[c] # pc[c]

\* The loop visits connection id: it goes on with the remaining connections,
\* or returns after the last one, whatever the write did.
C24_Visited(c, id) ==
    IF Targets(c) = {id}
    THEN pc'[c] = AfterUpdate(c)
    ELSE pc'[c] = "update_send" /\ local'[c].todo = Targets(c) \ {id}

\* The write of the loop to connection d: lost and logged if the sink of d
\* fails, appended to what d was sent otherwise.
C24_Write(c, d) ==
    IF d \in failing
    THEN /\ outbox' = outbox
         /\ [by |-> c, what |-> "send message error"] \in log'
    ELSE /\ outbox' = [outbox EXCEPT ![d] =
                         Append(@, [tag |-> "OpenChannelIdsChanged", id |-> 0, msg |-> "",
                                    err |-> "", data |-> "", ids |-> local[c].snap,
                                    by |-> c, via |-> local[c].cause, r |-> NoRef])]
         /\ log' = log

\* A step of the broadcast loop changes nothing of the hub and visits one
\* connection of the table.
C24_LoopGoesOn ==
    \A c \in Conns :
        (C24_LoopStep(c) /\ Targets(c) # {})
            => /\ UNCHANGED <<hub, table>>
               /\ \E id \in Targets(c) :
                      /\ C24_Visited(c, id)
                      /\ SocketAlive(senders[id]) => C24_Write(c, senders[id])

\* When a broadcast is over, every live connection whose sink does not fail
\* has been sent its list.
C24_OthersServed ==
    \A c \in Conns :
        (pc[c] = "update_send" /\ pc'[c] # "update_send")
            => \A d \in Conns :
                   (SocketAlive(d) /\ d \notin failing)
                       => \E f \in Frames(d)' :
                              /\ f.tag = "OpenChannelIdsChanged"
                              /\ f.by = c /\ f.via = local[c].cause
                              /\ f.ids = local[c].snap

\* An error reply to a connection whose sink fails: the handler returns as
\* usual, nothing is written, the failure is logged.
C24_ReplyLost ==
    \A c \in Conns, id \in SessionIds :
        (/\ c \in failing
         /\ \/ C19_SenderSide(c, id) /\ id \notin DOMAIN channel_senders[c]
            \/ C19_ReceiverSide(c, id) /\ id \notin DOMAIN channel_receivers[c])
            => /\ UNCHANGED <<hub, table, locks, local, outbox>>
               /\ pc' = pc /\ pc'[c] = "run"
               /\ log' = log \cup {[by |-> c, what |-> "send message error"]}

\* C24: a failed write to one connection is logged and dropped: the handler
\* that attempted it completes normally, the hub's state is what it would be
\* had the write succeeded, and a broadcast in progress still delivers
\* OpenChannelIdsChanged to all the other live connections.
C24_WriteFailure == [][C24_LoopGoesOn /\ C24_OthersServed /\ C24_ReplyLost]_vars

\* The sink of connection c fails; c opened "a": the channel is there, c is
\* reading again, the write of the list to c was logged and lost, and the
\* other connection was sent the list.
C24_Witness ==
    \E c, d \in Conns :
        /\ c # d
        /\ c \in failing /\ pc[c] = "run"
        /\ 1 \in DOMAIN channel_senders[c]
        /\ "a" \in DOMAIN channels /\ channels["a"] = channel_senders[c][1]
        /\ [by |-> c, what |-> "send message error"] \in log
        /\ \A f \in Frames(c) : f.via # "open"
        /\ \E f \in Frames(d) : f.by = c /\ f.via = "open" /\ f.ids = {"a"}

\* --------------------------------------------------------------------- C25

\* C25: connection ids are unique for the lifetime of the hub: the id given
\* to an accepted socket never equals the id of an entry already in the
\* table, so the assertion of Socket::new (no previous entry) and the
\* assertion of Socket::clear (entry present) hold in every reachable state.
C25_UniqueIds ==
    /\ \A c \in Conns : ~(pc[c] = "panicked" /\ local[c].end = "Assert")
    /\ \A c, d \in Conns :
           (c # d /\ pc[c] # "idle" /\ pc[d] # "idle" /\ SocketAlive(c))
               => socket_id[c] # socket_id[d]

\* --------------------------------------------------------------------- C26

\* The table has an entry for the connection of worker c.
C26_InTable(c) ==
    /\ pc[c] # "idle"
    /\ socket_id[c] \in DOMAIN senders
    /\ senders[socket_id[c]] = c

\* C26: the hub's connection table holds an entry for a connection exactly
\* while its socket is open: the entry is added at the handshake and removed
\* whenever the worker ends, for every way the inbound loop can end (Close
\* frame, invalid frame, end of stream, transport error).
C26_EntryIffOpen == \A c \in Conns : C26_InTable(c) <=> SocketAlive(c)

\* --------------------------------------------------------------------- C27

\* The frame a step appends to what connection d was sent, if it appends one.
C27_Appends(d) == Len(outbox'[d]) = Len(outbox[d]) + 1

C27_Appended(d) == outbox'[d][Len(outbox'[d])]

\* An id is refused as already used only if the session's own map of that
\* role has it.
C27_OwnMapOnly ==
    /\ \A c \in Conns, sid \in SessionIds, k \in ChannelIds, mode \in NetworkModes :
           (open_channel(c, sid, k, mode) /\ sid \notin DOMAIN channel_senders[c])
               => ~(C27_Appends(c) /\ C27_Appended(c).err = "SessionSenderIdIsAlreadyUsed")
    /\ \A c \in Conns, rid \in SessionIds, k \in ChannelIds :
           (join_channel(c, rid, k) /\ rid \notin DOMAIN channel_receivers[c])
               => ~(C27_Appends(c) /\ C27_Appended(c).err = "SessionReceiverIdIsAlreadyUsed")

\* A sender-side message of connection c changes only the channel its sender
\* id names in c's sender map, a receiver-side message only the receiver its
\* receiver id names in c's receiver map.
C27_OwnEntity ==
    \A c \in Conns, id \in SessionIds :
        /\ (/\ id \in DOMAIN channel_senders[c]
            /\ \/ \E sdp \in Sdps : send_offer(c, id, sdp)
               \/ \E ice \in Candidates : sender_ice_candidate(c, id, ice)
               \/ sender_all_ice_candidate_sent(c, id)
               \/ \E data \in Payloads : send_binary_data(c, id, data))
              => /\ receiver_objs' = receiver_objs
                 /\ \A ch \in 1..Len(channel_objs) :
                        ch # channel_senders[c][id] => channel_objs'[ch] = channel_objs[ch]
        /\ (/\ id \in DOMAIN channel_receivers[c]
            /\ \/ \E sdp \in Sdps : send_answer(c, id, sdp)
               \/ \E ice \in Candidates : receiver_ice_candidate(c, id, ice)
               \/ receiver_all_ice_candidate_sent(c, id))
              => /\ channel_objs' = channel_objs
                 /\ \A r \in 1..Len(receiver_objs) :
                        r # channel_receivers[c][id] => receiver_objs'[r] = receiver_objs[r]

\* Every frame forwarded or replayed goes to the session at the other end of
\* the channel: a Receiver frame to the connection of the receiver bound to
\* the sender's channel, under that receiver's id; a Sender frame to the
\* connection of the owner of the receiver's channel, under the owner's id.
C27_Routed ==
    \A d \in Conns :
        (C27_Appends(d) /\ C27_Appended(d).via \in {"forward", "replay"})
            => LET f == C27_Appended(d) IN
               IF f.tag = "ReceiverMessage"
               THEN /\ f.r \in 1..Len(receiver_objs')
                    /\ receiver_objs'[f.r].conn = d
                    /\ receiver_objs'[f.r].session_receiver_id = f.id
                    /\ channel_objs'[receiver_objs'[f.r].channel].receiver = f.r
                    /\ f.via = "forward"
                          => channel_objs[receiver_objs[f.r].channel].conn = f.by
               ELSE \E rid \in DOMAIN channel_receivers[f.by] :
                        LET ch == receiver_objs[channel_receivers[f.by][rid]].channel IN
                        /\ channel_objs[ch].conn = d
                        /\ channel_objs[ch].session_sender_id = f.id
                        /\ ch \in Range(channel_senders[d])

\* C27: session ids are scoped per socket and per role: sender id n and
\* receiver id n of one connection are independent sessions, and the same
\* sender or receiver id on two connections names two independent sessions;
\* neither causes a SenderIdAlreadyUsed or ReceiverIdAlreadyUsed error or
\* routes a frame to the wrong session.
C27_ScopedIds == [][C27_OwnMapOnly /\ C27_OwnEntity /\ C27_Routed]_vars

\* Connection 1 owns "b" under sender id 1 and holds a receiver of "a" under
\* receiver id 1; connection 2 owns "a" under sender id 1.  No id was refused,
\* and the answer of connection 1 reached connection 2 as Sender{1, ..}
\* while nothing was stored in channel "b".
C27_Witness ==
    /\ 1 \in DOMAIN channel_senders[1] /\ channel_objs[channel_senders[1][1]].channel_id = "b"
    /\ 1 \in DOMAIN channel_senders[2] /\ channel_objs[channel_senders[2][1]].channel_id = "a"
    /\ 1 \in DOMAIN channel_receivers[1]
    /\ receiver_objs[channel_receivers[1][1]].channel = channel_senders[2][1]
    /\ receiver_objs[channel_receivers[1][1]].session_description = "o1"
    /\ channel_objs[channel_senders[1][1]].session_description = None
    /\ channel_objs[channel_senders[2][1]].session_description = None
    /\ \A c \in Conns : \A f \in Frames(c) : f.msg # "Error"
    /\ \E f \in Frames(2) : f.tag = "SenderMessage" /\ f.id = 1
                            /\ f.msg = "ChannelAnswer" /\ f.by = 1

\* --------------------------------------------------------------------- C28

\* Worker c is inside a handler (or in Socket::clear, or in a broadcast).
C28_InHandler(c) == pc[c] \notin {"idle", "run", "done", "panicked"}

\* The locks worker c holds between two of its steps.
C28_HoldsRegistry(c) == channels_wr = c

C28_HoldsField(c) ==
    /\ pc[c] = "join_replay"
    /\ local[c].ch \in session_description_rd \cup ice_candidates_rd \cup receiver_wr

C28_HoldsTable(c) == c \in senders_rd

\* What worker c waits for at its next step, by rank: 1 the registry, 2 a
\* channel field, 3 the table of connections and a connection's outbound lock.
C28_WaitsForRank(c) ==
    CASE pc[c] = "update_snapshot" -> 1
      [] pc[c] \in {"send_offer", "sender_ice_candidate",
                    "sender_all_ice_candidate_sent"} -> 2
      [] pc[c] \in {"join_replay", "update_send", "clear"} -> 3
      [] OTHER -> 0

\* A worker that waits for the registry holds nothing; one that waits for a
\* channel field holds at most the registry; every field lock has a holder,
\* which also holds the registry, and only a joining worker holds either.
C28_LockOrder ==
    /\ \A c \in Conns :
           /\ C28_WaitsForRank(c) = 1
                 => ~C28_HoldsRegistry(c) /\ ~C28_HoldsField(c) /\ ~C28_HoldsTable(c)
           /\ C28_WaitsForRank(c) = 2 => ~C28_HoldsField(c) /\ ~C28_HoldsTable(c)
           /\ C28_HoldsRegistry(c) => pc[c] = "join_replay"
           /\ C28_HoldsTable(c) => pc[c] = "update_send"
    /\ \A ch \in session_description_rd \cup ice_candidates_rd \cup receiver_wr :
           \E c \in Conns : pc[c] = "join_replay" /\ local[c].ch = ch /\ channels_wr = c
    /\ channels_wr # NoRef => channels_wr \in Conns /\ pc[channels_wr] = "join_replay"

\* C28: every handler takes locks only in the order registry, channel field,
\* connection outbound lock, and never waits for an earlier one while it
\* holds a later one; so no interleaving deadlocks, and every handler that
\* has begun completes, given that writes complete and scheduling is fair.
C28_NoDeadlock ==
    /\ []C28_LockOrder
    /\ \A c \in Conns : C28_InHandler(c) ~> ~C28_InHandler(c)

\* Connection 1 has stored an offer and waits for the receiver slot of its
\* channel, which connection 2, replaying under the registry lock, holds.
C28_Witness ==
    /\ pc[1] = "send_offer"
    /\ pc[2] = "join_replay"
    /\ channels_wr = 2
    /\ local[1].ch = local[2].ch
    /\ local[1].ch \in receiver_wr

\* --------------------------------------------------------------------- C29

\* A registry lock or a channel-field lock is held.
C29_LockHeld ==
    \/ channels_wr # NoRef
    \/ session_description_rd \cup ice_candidates_rd \cup receiver_wr # {}

\* C29: no registry lock and no channel-field lock is held while a handler
\* forwards a frame to a connection, i.e. while it waits for or holds that
\* connection's outbound lock.
C29_NoLockWhileSending ==
    [][\A d \in Conns :
          outbox'[d] # outbox[d]
             => /\ ~C29_LockHeld
                /\ GuardsAtWrite(outbox'[d][Len(outbox'[d])].by) = {}]_vars

\* --------------------------------------------------------------------- C30

\* Connection c has read a frame that is neither Binary nor Close and is past
\* the loop of Socket::run.
C30_EndedByOther(c) ==
    /\ pc[c] \in {"clear", "update_snapshot", "update_send", "done"}
    /\ local[c].end = "Text"

\* Connection c is past Socket::clear.
C30_Cleared(c) == pc[c] \in {"update_snapshot", "update_send", "done"}

\* The step that reads the frame does what the step of a Close frame does: it
\* removes the registry entries of the channels the connection holds, no
\* other entry, and drops the channels.
C30_AsClose ==
    \A c \in Conns :
        run_break(c, "Text")
            => /\ \A k \in DOMAIN channels' :
                      /\ channels'[k] = channels[k]
                      /\ channels[k] \notin Range(channel_senders[c])
               /\ \A k \in DOMAIN channels :
                      channels[k] \notin Range(channel_senders[c]) => k \in DOMAIN channels'
               /\ channel_senders'[c] = EmptyMap
               /\ pc'[c] = "clear"

\* No channel of the connection is left, and no registry entry of one unless
\* it is the entry an earlier CloseChannel left behind; past clear() its
\* receivers are dropped and it is not in the table.
C30_CleanedUp ==
    \A c \in Conns :
        C30_EndedByOther(c)
            => /\ NoCloseChannel(c)
                    => \A k \in DOMAIN channels : channel_objs[channels[k]].conn # c
               /\ channel_senders[c] = EmptyMap
               /\ C30_Cleared(c)
                    => /\ channel_receivers[c] = EmptyMap
                       /\ socket_id[c] \notin DOMAIN senders

\* The list of the last broadcast is taken after the cleanup: it is the list
\* of the registry without the channels of the connection.
C30_ListTaken ==
    \A c \in Conns :
        (C30_EndedByOther(c) /\ pc[c] = "update_snapshot" /\ pc'[c] = "update_send")
            => /\ local'[c].snap = OpenChannelIds
               /\ \A k \in local'[c].snap : channels[k] \notin Range(channel_senders[c])
               /\ NoCloseChannel(c)
                    => \A k \in local'[c].snap : channel_objs[channels[k]].conn # c

\* When the last broadcast is over every live connection has been sent the
\* list.
C30_BroadcastDone ==
    \A c \in Conns :
        (C30_EndedByOther(c) /\ pc[c] = "update_send" /\ pc'[c] = "done")
            => \A d \in Conns :
                   SocketAlive(d) =>
                       \E f \in Frames(d)' :
                           /\ f.tag = "OpenChannelIdsChanged"
                           /\ f.by = c /\ f.via = "end" /\ f.ids = local[c].snap

\* C30: a Text frame, or any other frame that is neither Binary nor Close,
\* ends the worker with the cleanup of a Close frame: the registry entries of
\* the channels of the connection are removed, its channels and receivers are
\* dropped, the connection leaves the table, and the list of open channels is
\* then broadcast to the live connections; the worker reaches its end.
C30_InvalidFrameCleanup ==
    /\ []C30_CleanedUp
    /\ [][C30_AsClose /\ C30_ListTaken /\ C30_BroadcastDone]_vars
    /\ \A c \in Conns : C30_EndedByOther(c) ~> (pc[c] = "done")

\* Connection 1, owner of a channel, read a Text frame and ended: the id of
\* the channel is not in the registry, connection 1 is not in the table, and
\* connection 2, still live, was sent the last broadcast of connection 1, with
\* a list that does not name the channel.
C30_Witness ==
    /\ pc[1] = "done" /\ local[1].end = "Text"
    /\ \E ch \in 1..Len(channel_objs) :
         /\ channel_objs[ch].conn = 1
         /\ channel_objs[ch].channel_id \notin DOMAIN channels
         /\ \E i \in 1..Len(outbox[2]) :
              /\ outbox[2][i].by = 1 /\ outbox[2][i].via = "end"
              /\ channel_objs[ch].channel_id \notin outbox[2][i].ids
    /\ socket_id[1] \notin DOMAIN senders
    /\ SocketAlive(2)

\* --------------------------------------------------------------------- C31

\* The channel receiver r was bound to is no longer held by its owner: the
\* owner closed it or the owner's connection ended.
C31_OwnerGone(r) ==
    LET ch == receiver_objs[r].channel IN
    ch \notin Range(channel_senders[channel_objs[ch].conn])

\* Worker c handles a request of its receiver id rid that does nothing but
\* store: no frame is written, nothing is logged, the worker reads on.
C31_Silent(c) ==
    /\ outbox' = outbox
    /\ log' = log
    /\ pc' = pc
    /\ channel_receivers' = channel_receivers
    /\ channel_objs' = channel_objs

\* The answer, the candidate and the flag of a receiver whose owner is gone
\* are stored in the receiver and go nowhere.
C31_Stored ==
    \A c \in Conns : \A rid \in DOMAIN channel_receivers[c] :
        LET r == channel_receivers[c][rid] IN
        C31_OwnerGone(r) =>
            /\ \A sdp \in Sdps :
                  send_answer(c, rid, sdp)
                      => C31_Silent(c) /\ receiver_objs'[r].session_description = sdp
            /\ \A ice \in Candidates :
                  receiver_ice_candidate(c, rid, ice)
                      => /\ C31_Silent(c)
                         /\ receiver_objs'[r].candidates = Append(receiver_objs[r].candidates, ice)
                         /\ ~receiver_objs'[r].all_sent
            /\ receiver_all_ice_candidate_sent(c, rid)
                  => C31_Silent(c) /\ receiver_objs'[r].all_sent

\* The receiver id stays in use: a JoinChannel with it is refused with
\* SessionReceiverIdIsAlreadyUsed and binds nothing.
C31_IdInUse ==
    \A c \in Conns : \A rid \in DOMAIN channel_receivers[c], k \in ChannelIds :
        (C31_OwnerGone(channel_receivers[c][rid]) /\ join_channel(c, rid, k))
            => /\ outbox'[c] = Append(outbox[c],
                                      ReceiverError(rid, "SessionReceiverIdIsAlreadyUsed", "", c))
               /\ channel_receivers' = channel_receivers
               /\ receiver_objs' = receiver_objs
               /\ channel_objs' = channel_objs

C32_InNew(c) == pc[c] \in {"update_snapshot", "update_send"} /\ local[c].cause = "accept"

\* Connection c was sent the broadcast of its own Socket::new.
C32_Announced(c) ==
    \E f \in Frames(c) : f.tag = "OpenChannelIdsChanged" /\ f.by = c /\ f.via = "accept"

\* The accepted connection is put into the table under the id it was given,
\* and its worker goes on to the broadcast.
C32_Registered ==
    \A c \in Conns :
        Accept(c) => /\ socket_id'[c] \in DOMAIN senders'
                     /\ senders'[socket_id'[c]] = c
                     /\ C32_InNew(c)'

\* The list of that broadcast is the advertiseable set of the moment it is
\* taken.
C32_ListTaken ==
    \A c \in Conns :
        (C32_InNew(c) /\ pc[c] = "update_snapshot" /\ pc'[c] = "update_send")
            => local'[c].snap = OpenChannelIds

\* When Socket::new returns, the new connection and every other live
\* connection have been sent the list.
C32_BroadcastDone ==
    \A c \in Conns :
        (C32_InNew(c) /\ pc[c] = "update_send" /\ pc'[c] = "run")
            => \A d \in Conns :
                   SocketAlive(d) =>
                       \E f \in Frames(d)' :
                           /\ f.tag = "OpenChannelIdsChanged"
                           /\ f.by = c /\ f.via = "accept" /\ f.ids = local[c].snap

\* A worker that is in its loop or past it was sent the broadcast of its
\* Socket::new; before that it has handled nothing: it holds no channel and no
\* receiver, and no frame that is not of that broadcast was written by it.
C32_BeforeOwnMessages ==
    \A c \in Conns :
        /\ pc[c] \notin {"idle", "panicked"} /\ ~C32_InNew(c) => C32_Announced(c)
        /\ ~C32_Announced(c)
              => /\ channel_senders[c] = EmptyMap /\ channel_receivers[c] = EmptyMap
                 /\ \A d \in Conns : \A f \in Frames(d) : f.by = c => f.via = "accept"

\* The first frame a connection is sent is an OpenChannelIdsChanged.
C32_FirstFrame ==
    \A c \in Conns : Len(outbox[c]) > 0 => outbox[c][1].tag = "OpenChannelIdsChanged"

\* C32: a newly accepted connection is registered in the table and is then
\* sent an OpenChannelIdsChanged with the advertiseable set before any of its
\* own messages is handled, so the first frame of every connection is an
\* OpenChannelIdsChanged; the broadcast also goes to every other live
\* connection.
C32_AnnouncedOnAccept ==
    /\ [](C32_BeforeOwnMessages /\ C32_FirstFrame)
    /\ [][C32_Registered /\ C32_ListTaken /\ C32_BroadcastDone]_vars

\* --------------------------------------------------------------------- C33

\* How often x occurs in the sequence seq.
C33_Count(seq, x) == Cardinality({i \in 1..Len(seq) : seq[i] = x})

\* Receiver r is bound to its channel, the join that bound it is past its
\* replay and the owner of the channel is in no handler of a sender event.
C33_Settled(r) ==
    LET ch == receiver_objs[r].channel
        owner == channel_objs[ch].conn IN
    /\ channel_objs[ch].receiver = r
    /\ r \in Range(channel_receivers[receiver_objs[r].conn])
    /\ ch \in Range(channel_senders[owner])
    /\ pc[owner] \notin Forwarding

\* The offer stored last, every stored candidate and a set all_sent flag of
\* the channel of r were sent to r.
C33_Reached(r) ==
    LET ch == receiver_objs[r].channel IN
    /\ channel_objs[ch].session_description # None
         => C33_Count(Received(r), <<"ChannelOffer", channel_objs[ch].session_description>>) >= 1
    /\ \A ice \in Candidates :
         C33_Count(Received(r), <<"IceCandidate", ice>>)
            >= C33_Count(channel_objs[ch].candidates, ice)
    /\ channel_objs[ch].all_sent
         => C33_Count(Received(r), <<"AllIceCandidatesSent", "">>) >= 1

\* C33: no sender event is lost across a join: once receiver R is bound to
\* channel k and neither the join nor a handler of the owner is under way, the
\* offer stored last, every stored ICE candidate and a set all_sent flag have
\* reached R, in the replay or as a forward, however the join and the owner's
\* handlers were interleaved.
C33_NothingLost ==
    \A r \in 1..Len(receiver_objs) : C33_Settled(r) => C33_Reached(r)

\* A handler of the owner ran interleaved with the join of receiver 1: the
\* receiver, bound and past its replay, was sent a candidate as a forward right
\* after a frame of the replay, and the channel stores two candidates or more.
C33_Witness ==
    /\ Len(receiver_objs) >= 1
    /\ C33_Settled(1)
    /\ \E i \in 2..Len(FramesFor(1)) :
         /\ FramesFor(1)[i].via = "forward" /\ FramesFor(1)[i].msg = "IceCandidate"
         /\ FramesFor(1)[i - 1].via = "replay"
    /\ Len(channel_objs[receiver_objs[1].channel].candidates) >= 2

\* --------------------------------------------------------------------- C34

\* The candidates of a channel are only ever appended to and each is stored
\* by one IceCandidate request, so a receiver that is sent every event at most
\* once is sent a candidate at most as often as the channel stores it.
C34_CandidatesOnce(r) ==
    \A ice \in Candidates :
        C33_Count(Received(r), <<"IceCandidate", ice>>)
            <= C33_Count(channel_objs[receiver_objs[r].channel].candidates, ice)

\* C34: no sender event is delivered twice to the same receiver: an event
\* that was in the replay of the receiver's join is not also forwarded to it,
\* however the join and the owner's handlers are interleaved (stated for the
\* ICE candidates, which the channel keeps one by one).
C34_NoDuplicate ==
    \A r \in 1..Len(receiver_objs) : C34_CandidatesOnce(r)

\* --------------------------------------------------------------------- C35

\* A receiver held in a session's map belongs to that session, and the slot
\* of its channel, if the channel is alive, refers to it.
C35_SlotMatches ==
    \A c \in Conns : \A rid \in DOMAIN channel_receivers[c] :
        LET r == channel_receivers[c][rid]
            ch == receiver_objs[r].channel IN
        /\ receiver_objs[r].conn = c
        /\ receiver_objs[r].session_receiver_id = rid
        /\ ChannelAlive(ch) => channel_objs[ch].receiver = r

\* What a receiver's request writes besides storing goes to the connection
\* of the owner of its channel, under the owner's sender id.
C35_ToOwner(c, rid) ==
    LET r == channel_receivers[c][rid]
        ch == receiver_objs[r].channel IN
    \A d \in Conns :
        outbox'[d] # outbox[d]
            => /\ d = channel_objs[ch].conn
               /\ channel_objs[ch].receiver = r
               /\ outbox'[d] = Append(outbox[d], outbox'[d][Len(outbox'[d])])
               /\ outbox'[d][Len(outbox'[d])].tag = "SenderMessage"
               /\ outbox'[d][Len(outbox'[d])].id = channel_objs[ch].session_sender_id

C35_ReachesOwner ==
    \A c \in Conns : \A rid \in DOMAIN channel_receivers[c] :
        (\/ \E sdp \in Sdps : send_answer(c, rid, sdp)
         \/ \E ice \in Candidates : receiver_ice_candidate(c, rid, ice)
         \/ receiver_all_ice_candidate_sent(c, rid))
            => C35_ToOwner(c, rid)

\* A JoinChannel answered with an error creates no receiver and changes no
\* slot.
C35_RejectedJoin ==
    \A c \in Conns, rid \in SessionIds, k \in ChannelIds :
        (/\ join_channel(c, rid, k)
         /\ Len(outbox'[c]) > Len(outbox[c])
         /\ outbox'[c][Len(outbox'[c])].msg = "Error")
            => /\ receiver_objs' = receiver_objs
               /\ channel_objs' = channel_objs
               /\ channel_receivers' = channel_receivers
               /\ pc' = pc

\* C35: binding consistency: if a session's receiver map holds a receiver
\* whose channel is alive, the receiver slot of that channel refers to exactly
\* that receiver; a receiver's answer and candidates reach only the owner of
\* the channel it is bound to, and a join rejected with an error leaves no
\* receiver behind.
C35_BindingConsistency ==
    /\ []C35_SlotMatches
    /\ [][C35_ReachesOwner /\ C35_RejectedJoin]_vars

\* Receiver 1 of connection 2 is bound to the channel of connection 1, whose
\* own JoinChannel was refused as occupied; the answer of the receiver was
\* forwarded to connection 1.
C35_Witness ==
    /\ Len(receiver_objs) = 1
    /\ 1 \in Range(channel_receivers[2])
    /\ ChannelAlive(receiver_objs[1].channel)
    /\ channel_objs[receiver_objs[1].channel].conn = 1
    /\ \E f \in Frames(1) : f.msg = "Error" /\ f.err = "ChannelIsAlreadyOccupied"
    /\ \E f \in Frames(1) : f.msg = "ChannelAnswer" /\ f.by = 2 /\ f.via = "forward"

\* --------------------------------------------------------------------- C36

\* The sender sessions that hold channel ch: <<connection, sender id>>.
C36_Holders(ch) ==
    {h \in Conns \X SessionIds :
        h[2] \in DOMAIN channel_senders[h[1]] /\ channel_senders[h[1]][h[2]] = ch}

\* A live channel (its Weak upgrades) is held by exactly one sender session,
\* of the connection that opened it.
C36_OneOwner ==
    \A ch \in 1..Len(channel_objs) :
        ChannelAlive(ch)
            => /\ Cardinality(C36_Holders(ch)) = 1
               /\ \A h \in C36_Holders(ch) : h[1] = channel_objs[ch].conn

\* The registry maps the id of a live channel to it.
C36_Registered ==
    \A ch \in 1..Len(channel_objs) :
        ChannelAlive(ch)
            => /\ channel_objs[ch].channel_id \in DOMAIN channels
               /\ channels[channel_objs[ch].channel_id] = ch

\* Two live channels have different ids.
C36_DistinctIds ==
    \A ch1, ch2 \in 1..Len(channel_objs) :
        (ch1 # ch2 /\ ChannelAlive(ch1) /\ ChannelAlive(ch2))
            => channel_objs[ch1].channel_id # channel_objs[ch2].channel_id

\* A JoinChannel answered ChannelIsNotExist named the id of no live channel.
C36_JoinFindsLive ==
    \A c \in Conns, rid \in SessionIds, k \in ChannelIds :
        (/\ join_channel(c, rid, k)
         /\ Len(outbox'[c]) > Len(outbox[c])
         /\ outbox'[c][Len(outbox'[c])].err = "ChannelIsNotExist")
            => \A ch \in 1..Len(channel_objs) :
                   ChannelAlive(ch) => channel_objs[ch].channel_id # k

\* C36: in every reachable state each live channel is held by exactly one
\* sender session of exactly one connection and the registry maps its channel
\* id to it; two live channels never share a channel id, and a JoinChannel for
\* the id of a live channel is never answered ChannelIsNotExist.
C36_LiveChannels ==
    /\ [](C36_OneOwner /\ C36_Registered /\ C36_DistinctIds)
    /\ [][C36_JoinFindsLive]_vars

\* --------------------------------------------------------------------- C37

\* No frame is an OpenChannelSuccess or a JoinChannelSuccess; a direct reply
\* to a request is an error, what a worker writes in the broadcast that ends
\* a handler is an OpenChannelIdsChanged, and a replay consists of the stored
\* offer, candidates and flag.
C37_FrameKinds ==
    \A d \in Conns : \A f \in Frames(d) :
        /\ f.msg \notin {"OpenChannelSuccess", "JoinChannelSuccess"}
        /\ f.via = "reply" => f.msg = "Error"
        /\ f.via \in {"accept", "open", "close", "join", "end"}
              => f.tag = "OpenChannelIdsChanged"
        /\ f.via = "replay"
              => /\ f.tag = "ReceiverMessage"
                 /\ f.msg \in {"ChannelOffer", "IceCandidate", "AllIceCandidatesSent"}

\* The step that creates a channel writes nothing; the worker goes on to the
\* broadcast.
C37_OpenSilent ==
    \A c \in Conns :
        Len(channel_objs') > Len(channel_objs) /\ pc[c] # pc'[c]
            => /\ outbox' = outbox
               /\ pc'[c] = "update_snapshot" /\ local'[c].cause = "open"

\* From the step that binds a receiver to the broadcast that ends the join,
\* the joining worker writes replay frames to the receiver and nothing else.
C37_JoinReplayOnly ==
    \A c \in Conns :
        /\ Len(receiver_objs') > Len(receiver_objs) /\ pc[c] # pc'[c]
              => outbox' = outbox
        /\ pc[c] = "join_replay" /\ pc'[c] # pc[c]
              => /\ pc'[c] = "update_snapshot" /\ local'[c].cause = "join"
        /\ pc[c] = "join_replay" /\ (pc'[c] # pc[c] \/ local'[c] # local[c])
              => \A d \in Conns :
                     outbox'[d] # outbox[d]
                        => /\ d = c
                           /\ outbox'[d] = Append(outbox[d], outbox'[d][Len(outbox'[d])])
                           /\ outbox'[d][Len(outbox'[d])].via = "replay"
                           /\ outbox'[d][Len(outbox'[d])].r = local[c].r

\* C37: the hub never sends OpenChannelSuccess or JoinChannelSuccess: a
\* successful OpenChannel is answered with no direct reply, a successful
\* JoinChannel with the replay frames only, and the only other thing the
\* requester is sent is the OpenChannelIdsChanged of the broadcast.
C37_NoSuccessReply ==
    /\ []C37_FrameKinds
    /\ [][C37_OpenSilent /\ C37_JoinReplayOnly]_vars

\* Connection 1 opened a channel and stored an offer, connection 2 joined it:
\* connection 1 was sent nothing but lists, connection 2 lists and the
\* replayed offer.
C37_Witness ==
    /\ pc = [c \in Conns |-> "run"]
    /\ Len(channel_objs) = 1 /\ channel_objs[1].conn = 1
    /\ Len(receiver_objs) = 1 /\ 1 \in Range(channel_receivers[2])
    /\ \A f \in Frames(1) : f.tag = "OpenChannelIdsChanged"
    /\ \E f \in Frames(1) : f.by = 1 /\ f.via = "open"
    /\ \E f \in Frames(2) : f.via = "replay" /\ f.msg = "ChannelOffer"
    /\ \E f \in Frames(2) : f.by = 2 /\ f.via = "join"
    /\ \A f \in Frames(2) : f.tag = "OpenChannelIdsChanged" \/ f.via = "replay"

=============================================================================
